---- MODULE Spec2Model ----
(***************************************************************************)
(* Model of the `work` time tracker (nielsing/work): the append-only log   *)
(* of Start/Stop events (src/src/log_file.rs), the tally of the time spent *)
(* per project and description (tally_time, src/src/project_map.rs),       *)
(* the interval constructor and the time specifiers (src/src/time.rs) and  *)
(* the commands (src/src/subcommands.rs, src/src/main.rs).                 *)
(*                                                                         *)
(* Text is a sequence of atoms.  An atom is one character ("a", ",", " ")  *)
(* or one of the words the code writes and matches as a whole ("Start",    *)
(* "Stop", "Unnamed project", "No description").  An Option<String> is a   *)
(* sequence of length 0 (None) or 1 (Some(text)).  A log line is a record  *)
(* [ts, text]: the decimal timestamp the line starts with and the text     *)
(* after the first comma.                                                  *)
(***************************************************************************)
EXTENDS Integers, Sequences, FiniteSets, TLC

VARIABLES
    log,        \* the lines of the log file, in append order
    now,        \* the system clock, time::now()
    interval,   \* the last Interval built by Interval::new
    args,       \* the last call of Interval::new: its arguments and the clock then
    written,    \* the last event handed to append_event, <<>> before the first
    tally,      \* the outcome of the last tally_time
    exit,       \* the exit code of the last command, -1 before the first
    subcommand, \* the subcommand that ran last, "" before the first
    parsed      \* the last call of a time function: its arguments and its result

vars == <<log, now, interval, args, written, tally, exit, subcommand, parsed>>

----------------------------------------------------------------------------
(* Bounds *)

MaxTime == 2        \* timestamps of appended records and of queries over them: 0..MaxTime
MaxLog == 2         \* number of lines in the log
MaxClock == 3       \* the clock runs over 0..MaxClock
MaxStamp == 5       \* arguments of Interval::new range over -MaxStamp..MaxStamp
MaxStrLen == 2      \* length of a project or description text in the round trip
MaxUnitLen == 3     \* length of the texts given to parse_time_input, every one of them

Times == 0 .. MaxTime
Clock == 0 .. MaxClock
Stamps == (0 - MaxStamp) .. MaxStamp

----------------------------------------------------------------------------
(* Option<String> and text *)

None == <<>>
Some(s) == <<s>>

COMMA == ","
SPACE == " "

\* One more character in front of the pieces of the rest of the text.
split_push(c, rest) ==
    IF c = COMMA
      THEN << <<>> >> \o rest
      ELSE << <<c>> \o Head(rest) >> \o Tail(rest)

RECURSIVE split(_)
\* str::split(','): the pieces between the commas, empty pieces included.
split(s) ==
    IF s = <<>> THEN << <<>> >> ELSE split_push(Head(s), split(Tail(s)))

RECURSIVE trim(_)
\* str::trim(): strips the leading and trailing whitespace.
trim(s) ==
    IF s = <<>> THEN s
    ELSE IF Head(s) = SPACE THEN trim(Tail(s))
    ELSE IF s[Len(s)] = SPACE THEN trim(SubSeq(s, 1, Len(s) - 1))
    ELSE s

----------------------------------------------------------------------------
(* Event *)

Start(project, description) ==
    [kind |-> "Start", project |-> project, description |-> description]

Stop(project, description) ==
    [kind |-> "Stop", project |-> project, description |-> description]

to_project(event) ==
    IF event.project = None THEN <<"Unnamed project">> ELSE event.project[1]

to_description(event) ==
    IF event.description = None THEN <<"No description">> ELSE event.description[1]

\* impl From<&str> for Event: the line is split on ',', every piece is
\* trimmed, and the pieces are matched against the six shapes in order.
\* values[1] is the text of the timestamp, which no shape looks at.
Event_from(line) ==
    LET pieces == split(line.text)
        values == [i \in 1 .. Len(pieces) |-> trim(pieces[i])]
    IN  IF Len(values) # 3 THEN Stop(None, None)
        ELSE IF values[1] = <<"Stop">> /\ values[2] = <<>> /\ values[3] = <<>>
          THEN Stop(None, None)
        ELSE IF values[1] = <<"Start">> /\ values[2] = <<>> /\ values[3] = <<>>
          THEN Start(None, None)
        ELSE IF values[1] = <<"Start">> /\ values[3] = <<>>
          THEN Start(Some(values[2]), None)
        ELSE IF values[1] = <<"Stop">> /\ values[3] = <<>>
          THEN Stop(Some(values[2]), None)
        ELSE IF values[1] = <<"Start">>
          THEN Start(Some(values[2]), Some(values[3]))
        ELSE IF values[1] = <<"Stop">>
          THEN Stop(Some(values[2]), Some(values[3]))
        ELSE Stop(None, None)

\* The line append_event formats for an event: one format! per shape.
format_event(event, timestamp) ==
    LET kind == <<event.kind>>
        text ==
          CASE event.project # None /\ event.description # None ->
                 kind \o <<COMMA>> \o event.project[1] \o <<COMMA>> \o event.description[1]
            [] event.project # None /\ event.description = None ->
                 kind \o <<COMMA>> \o event.project[1] \o <<COMMA>>
            [] event.project = None /\ event.description # None ->
                 kind \o <<COMMA, COMMA>> \o event.description[1]
            [] OTHER ->
                 kind \o <<COMMA, COMMA>>
    IN  [ts |-> timestamp, text |-> text]

----------------------------------------------------------------------------
(* Dates and times of the chrono crate.  A NaiveDate is a record [year,     *)
(* month, day], a NaiveTime a record [hour, minute, second], a NaiveDateTime*)
(* a record [date, time]; NoDate stands for the date of a constructor that  *)
(* panicked.                                                                *)

SECONDS_IN_MINUTE == 60
SECONDS_IN_HOUR == 3600
SECONDS_IN_DAY == 86400

is_leap_year(year) ==
    year % 4 = 0 /\ (year % 100 # 0 \/ year % 400 = 0)

days_in_month(year, month) ==
    CASE month \in {4, 6, 9, 11} -> 30
      [] month = 2 -> IF is_leap_year(year) THEN 29 ELSE 28
      [] OTHER -> 31

NoDate == [year |-> 0, month |-> 0, day |-> 0]

\* NaiveDate::from_ymd: panics on a day the month does not have.
NaiveDate_from_ymd(year, month, day) ==
    IF month \in 1 .. 12 /\ day \in 1 .. days_in_month(year, month)
      THEN [year |-> year, month |-> month, day |-> day]
      ELSE NoDate

NaiveTime_from_hms(hour, minute, second) ==
    [hour |-> hour, minute |-> minute, second |-> second]

NaiveDateTime_new(date, time) == [date |-> date, time |-> time]

\* The order of NaiveDate and of NaiveTime.
date_gt(a, b) ==
    \/ a.year > b.year
    \/ a.year = b.year /\ a.month > b.month
    \/ a.year = b.year /\ a.month = b.month /\ a.day > b.day

time_gt(a, b) ==
    \/ a.hour > b.hour
    \/ a.hour = b.hour /\ a.minute > b.minute
    \/ a.hour = b.hour /\ a.minute = b.minute /\ a.second > b.second

\* The number of days from 1970-01-01 to a date of the proleptic Gregorian
\* calendar, and the date of a number of days.
days_from_civil(date) ==
    LET y == IF date.month <= 2 THEN date.year - 1 ELSE date.year
        mp == IF date.month > 2 THEN date.month - 3 ELSE date.month + 9
        era == y \div 400
        yoe == y - era * 400
        doy == (153 * mp + 2) \div 5 + date.day - 1
        doe == yoe * 365 + yoe \div 4 - yoe \div 100 + doy
    IN  era * 146097 + doe - 719468

civil_from_days(days) ==
    LET z == days + 719468
        era == z \div 146097
        doe == z - era * 146097
        yoe == (doe - doe \div 1460 + doe \div 36524 - doe \div 146096) \div 365
        doy == doe - (365 * yoe + yoe \div 4 - yoe \div 100)
        mp == (5 * doy + 2) \div 153
        month == IF mp < 10 THEN mp + 3 ELSE mp - 9
    IN  [year |-> yoe + era * 400 + (IF month <= 2 THEN 1 ELSE 0),
         month |-> month,
         day |-> doy - (153 * mp + 2) \div 5 + 1]

\* date + Duration::days(n), n of either sign.
date_plus_days(date, n) == civil_from_days(days_from_civil(date) + n)

\* NaiveDateTime::timestamp and its inverse.
NaiveDateTime_timestamp(moment) ==
    days_from_civil(moment.date) * SECONDS_IN_DAY
        + moment.time.hour * SECONDS_IN_HOUR
        + moment.time.minute * SECONDS_IN_MINUTE
        + moment.time.second

NaiveDateTime_from_timestamp(seconds) ==
    LET days == IF seconds >= 0 THEN seconds \div SECONDS_IN_DAY
                ELSE 0 - ((SECONDS_IN_DAY - 1 - seconds) \div SECONDS_IN_DAY)
        rest == seconds - days * SECONDS_IN_DAY
    IN  NaiveDateTime_new(
            civil_from_days(days),
            NaiveTime_from_hms(rest \div SECONDS_IN_HOUR,
                               (rest % SECONDS_IN_HOUR) \div SECONDS_IN_MINUTE,
                               rest % SECONDS_IN_MINUTE))

\* moment + Duration::seconds(n), n of either sign.
moment_plus_seconds(moment, n) == NaiveDateTime_from_timestamp(NaiveDateTime_timestamp(moment) + n)

----------------------------------------------------------------------------
(* The clock as the time functions read it *)

\* now_date_time(): the local date and time of the clock, in a time zone
\* without offset from UTC.
now_date_time == NaiveDateTime_from_timestamp(now)

today == now_date_time.date
\* yesterday() that subtracts no day.
yesterday_same_day == today

yesterday == date_plus_days(today, 0 - 1)
tomorrow == date_plus_days(today, 1)

\* last_month(day), this_month(day), next_month(day): the day `day` of the
\* month before, of this month and of the month after.
last_month(day) ==
    IF today.month = 1
      THEN NaiveDate_from_ymd(today.year - 1, 12, day)
      ELSE NaiveDate_from_ymd(today.year, today.month - 1, day)

this_month(day) == NaiveDate_from_ymd(today.year, today.month, day)

next_month(day) ==
    IF today.month = 12
      THEN NaiveDate_from_ymd(today.year + 1, 1, day)
      ELSE NaiveDate_from_ymd(today.year, today.month + 1, day)

Backward == "Backward"
Forward == "Forward"

\* get_ambiguous_date that ignores the clock: always today.
get_ambiguous_date_today(given_time, search_type) == today

\* get_ambiguous_date: the date of a time of day.
get_ambiguous_date(given_time, search_type) ==
    IF time_gt(given_time, now_date_time.time)
      THEN IF search_type = Backward THEN yesterday ELSE today
      ELSE IF search_type = Backward THEN today ELSE tomorrow

\* get_ambiguous_month: the month of a day of the month.
get_ambiguous_month(given_date, search_type) ==
    IF date_gt(given_date, today)
      THEN IF search_type = Backward
             THEN last_month(given_date.day)
             ELSE this_month(given_date.day)
      ELSE IF search_type = Backward THEN this_month(given_date.day)
           ELSE IF given_date = today THEN this_month(given_date.day)
           ELSE next_month(given_date.day)

\* get_ambiguous_year: the year of a month; the day is the one of today.
get_ambiguous_year(given_date, search_type) ==
    IF given_date.month > today.month
      THEN IF search_type = Backward
             THEN NaiveDate_from_ymd(today.year - 1, given_date.month, today.day)
             ELSE NaiveDate_from_ymd(today.year + 1, given_date.month, today.day)
      ELSE NaiveDate_from_ymd(today.year, given_date.month, today.day)

----------------------------------------------------------------------------
(* Time specifiers.  A specifier is a text of characters. *)

Digits == {"0", "1", "2", "3", "4", "5", "6", "7", "8", "9"}

digit_value(c) ==
    CASE c = "0" -> 0 [] c = "1" -> 1 [] c = "2" -> 2 [] c = "3" -> 3 [] c = "4" -> 4
      [] c = "5" -> 5 [] c = "6" -> 6 [] c = "7" -> 7 [] c = "8" -> 8 [] c = "9" -> 9

RECURSIVE from_str_radix(_)
\* from_str_radix(text, 10) of a text of decimal digits.
from_str_radix(text) ==
    IF text = <<>> THEN 0
    ELSE from_str_radix(SubSeq(text, 1, Len(text) - 1)) * 10 + digit_value(text[Len(text)])

\* A decimal digit that is not an ASCII digit: ARABIC-INDIC DIGIT THREE.
OtherDigits == {"U+0663"}

\* \d and \s of the regular expressions, which are Unicode-aware: \d is
\* every decimal digit, \s every white space (the tab stands for the ones
\* that are not the space).  [1-9], [0-3] and the like are ASCII ranges.
is_digit(c) == c \in Digits \cup OtherDigits

\* from_str_radix returns Ok for a text of ASCII digits that is not empty.
all_digits(text) == text # <<>> /\ \A i \in DOMAIN text : text[i] \in Digits
is_space(c) == c \in {" ", "\t"}

\* (0?\d|1\d|2[0-3])
hour_pattern(t) ==
    \/ Len(t) = 1 /\ is_digit(t[1])
    \/ Len(t) = 2 /\ t[1] \in {"0", "1"} /\ is_digit(t[2])
    \/ Len(t) = 2 /\ t[1] = "2" /\ t[2] \in {"0", "1", "2", "3"}

\* (0?\d|[1-5]\d)
minute_pattern(t) ==
    \/ Len(t) = 1 /\ is_digit(t[1])
    \/ Len(t) = 2 /\ t[1] \in {"0", "1", "2", "3", "4", "5"} /\ is_digit(t[2])

\* (0?[1-9]|[1-2]\d|3[01])
day_pattern(t) ==
    \/ Len(t) = 1 /\ is_digit(t[1]) /\ t[1] # "0"
    \/ Len(t) = 2 /\ t[1] = "0" /\ is_digit(t[2]) /\ t[2] # "0"
    \/ Len(t) = 2 /\ t[1] \in {"1", "2"} /\ is_digit(t[2])
    \/ Len(t) = 2 /\ t[1] = "3" /\ t[2] \in {"0", "1"}

\* (0?[1-9]|1[0-2])
month_pattern(t) ==
    \/ Len(t) = 1 /\ is_digit(t[1]) /\ t[1] # "0"
    \/ Len(t) = 2 /\ t[1] = "0" /\ is_digit(t[2]) /\ t[2] # "0"
    \/ Len(t) = 2 /\ t[1] = "1" /\ t[2] \in {"0", "1", "2"}

\* (0?[1-9]|1\d|2[0-3])
hours_ago_pattern(t) ==
    \/ Len(t) = 1 /\ is_digit(t[1]) /\ t[1] # "0"
    \/ Len(t) = 2 /\ t[1] = "0" /\ is_digit(t[2]) /\ t[2] # "0"
    \/ Len(t) = 2 /\ t[1] = "1" /\ is_digit(t[2])
    \/ Len(t) = 2 /\ t[1] = "2" /\ t[2] \in {"0", "1", "2", "3"}

\* (0?[1-9]|[1-5]\d)
minutes_ago_pattern(t) ==
    \/ Len(t) = 1 /\ is_digit(t[1]) /\ t[1] # "0"
    \/ Len(t) = 2 /\ t[1] = "0" /\ is_digit(t[2]) /\ t[2] # "0"
    \/ Len(t) = 2 /\ t[1] \in {"1", "2", "3", "4", "5"} /\ is_digit(t[2])

\* The text before and the text after the position i.
before(t, i) == SubSeq(t, 1, i - 1)
after(t, i) == SubSeq(t, i + 1, Len(t))

\* The first position of one of the characters, 0 when there is none.
find(t, chars) ==
    IF \E i \in DOMAIN t : t[i] \in chars
      THEN CHOOSE i \in DOMAIN t : t[i] \in chars /\ \A j \in 1 .. i - 1 : t[j] \notin chars
      ELSE 0

AT_HOUR(unit) == hour_pattern(unit)

AT_HOUR_MINUTES(unit) ==
    \E i \in DOMAIN unit :
        unit[i] = ":" /\ hour_pattern(before(unit, i)) /\ minute_pattern(after(unit, i))

AT_DAY_HOUR_MINUTES(unit) ==
    \E i \in DOMAIN unit :
        is_space(unit[i]) /\ day_pattern(before(unit, i)) /\ AT_HOUR_MINUTES(after(unit, i))

AT_DAY_MONTH_HOUR_MINUTES(unit) ==
    \E i \in DOMAIN unit : \E j \in DOMAIN unit :
        /\ i < j /\ unit[i] = "-" /\ is_space(unit[j])
        /\ day_pattern(before(unit, i))
        /\ month_pattern(SubSeq(unit, i + 1, j - 1))
        /\ AT_HOUR_MINUTES(after(unit, j))

\* HOURS_AGO_OR_UNTIL with an optional 'h'.
HOURS_AGO_OR_UNTIL_optional_suffix(unit) ==
    \/ hours_ago_pattern(unit)
    \/ unit # <<>> /\ unit[Len(unit)] = "h" /\ hours_ago_pattern(before(unit, Len(unit)))

HOURS_AGO_OR_UNTIL(unit) ==
    unit # <<>> /\ unit[Len(unit)] = "h" /\ hours_ago_pattern(before(unit, Len(unit)))

MINUTES_AGO_OR_UNTIL(unit) ==
    unit # <<>> /\ unit[Len(unit)] = "m" /\ minutes_ago_pattern(before(unit, Len(unit)))

HOURS_AND_MINUTES_AGO_OR_UNTIL(unit) ==
    unit # <<>> /\ unit[Len(unit)] = "h" /\ AT_HOUR_MINUTES(before(unit, Len(unit)))

\* NaiveTime::parse_from_str(text, "%H:%M") of a text the pattern accepted:
\* the numbers are read from ASCII digits, any other digit is an Err
\* (NoTime), and unwrap() panics.
NoTime == [hour |-> 0 - 1, minute |-> 0 - 1, second |-> 0 - 1]
NaiveTime_parse_from_str(text) ==
    LET hour == before(text, find(text, {":"}))
        minute == after(text, find(text, {":"}))
    IN  IF all_digits(hour) /\ all_digits(minute)
          THEN NaiveTime_from_hms(from_str_radix(hour), from_str_radix(minute), 0)
          ELSE NoTime

\* NaiveDate::parse_from_str(text, "%d-%m"): the day and the month are
\* read, and a date cannot be made of them without a year: the result is an
\* Err for every text, and unwrap() panics.
NaiveDate_parse_from_str(text) == NoDate

\* The outcomes of parse_time_input: a moment, the User error with the
\* message "Invalid time specifier: {unit}", and a panic.
NoMoment == NaiveDateTime_new(NoDate, NaiveTime_from_hms(0, 0, 0))
Resolved(moment) == [tag |-> "Ok", moment |-> moment, message |-> <<>>]
Invalid(unit) ==
    [tag |-> "Err", moment |-> NoMoment, message |-> <<"Invalid time specifier: ">> \o unit]
Panicked == [tag |-> "panic", moment |-> NoMoment, message |-> <<>>]

\* Ok(NaiveDateTime::new(date, time)), when making the date and the time
\* did not panic.
resolved_at(date, time) ==
    IF date = NoDate \/ time = NoTime THEN Panicked
    ELSE Resolved(NaiveDateTime_new(date, time))

TODAY == <<"t", "o", "d", "a", "y">>
YESTERDAY == <<"y", "e", "s", "t", "e", "r", "d", "a", "y">>

\* The date of a `D H:M` or `D-M H:M` specifier, once its day or its month
\* is resolved to `date`: today falls back on the time of day.
with_today_fallback(date, time, search_type) ==
    IF date = NoDate \/ time = NoTime THEN Panicked
    ELSE IF date = today THEN resolved_at(get_ambiguous_date(time, search_type), time)
    ELSE resolved_at(date, time)

\* The `D H:M` branch of parse_time_input.
parse_day_hour_minutes(unit, search_type) ==
    LET day == before(unit, find(unit, {" ", "\t"}))
        time == NaiveTime_parse_from_str(after(unit, find(unit, {" ", "\t"})))
        given_date == NaiveDate_from_ymd(today.year, today.month, from_str_radix(day))
    IN  IF ~all_digits(day) \/ time = NoTime THEN Panicked
        ELSE IF given_date = NoDate THEN Panicked
        ELSE with_today_fallback(get_ambiguous_month(given_date, search_type),
                                 time, search_type)

\* The `D-M H:M` branch of parse_time_input.
parse_day_month_hour_minutes(unit, search_type) ==
    LET date == NaiveDate_parse_from_str(before(unit, find(unit, {" ", "\t"})))
        time == NaiveTime_parse_from_str(after(unit, find(unit, {" ", "\t"})))
    IN  IF date = NoDate THEN Panicked
        ELSE with_today_fallback(get_ambiguous_year(date, search_type),
                                 time, search_type)

\* now - duration with Backward, now + duration with Forward.
ago_or_until(seconds, search_type) ==
    Resolved(moment_plus_seconds(now_date_time,
                                 IF search_type = Backward THEN 0 - seconds ELSE seconds))

\* The `H:Mh` branch of parse_time_input: the text is split on ':', and the
\* minutes are read from the whole second piece, &units[1][..units[1].len()],
\* which still ends with the 'h': from_str_radix returns an Err for a text
\* with a character that is no digit, and unwrap() panics.
parse_hours_and_minutes_ago(unit, search_type) ==
    LET hours == before(unit, find(unit, {":"}))
        minutes == after(unit, find(unit, {":"}))
    IN  IF ~all_digits(hours) \/ ~all_digits(minutes) THEN Panicked
        ELSE ago_or_until((from_str_radix(hours) * 60 + from_str_radix(minutes))
                              * SECONDS_IN_MINUTE,
                          search_type)

\* parse_time_input(unit, search_type): the first pattern that matches
\* decides how the specifier is read.
parse_time_input(unit, search_type) ==
    IF AT_HOUR(unit) THEN
        LET time == NaiveTime_parse_from_str(unit \o <<":", "0", "0">>)
        IN  IF time = NoTime THEN Panicked
            ELSE resolved_at(get_ambiguous_date(time, search_type), time)
    ELSE IF AT_HOUR_MINUTES(unit) THEN
        LET time == NaiveTime_parse_from_str(unit)
        IN  IF time = NoTime THEN Panicked
            ELSE resolved_at(get_ambiguous_date(time, search_type), time)
    ELSE IF AT_DAY_HOUR_MINUTES(unit) THEN
        parse_day_hour_minutes(unit, search_type)
    ELSE IF AT_DAY_MONTH_HOUR_MINUTES(unit) THEN
        parse_day_month_hour_minutes(unit, search_type)
    ELSE IF HOURS_AGO_OR_UNTIL(unit) THEN
        IF ~all_digits(before(unit, Len(unit))) THEN Panicked
        ELSE ago_or_until(from_str_radix(before(unit, Len(unit))) * SECONDS_IN_HOUR,
                          search_type)
    ELSE IF MINUTES_AGO_OR_UNTIL(unit) THEN
        IF ~all_digits(before(unit, Len(unit))) THEN Panicked
        ELSE ago_or_until(from_str_radix(before(unit, Len(unit))) * SECONDS_IN_MINUTE,
                          search_type)
    ELSE IF HOURS_AND_MINUTES_AGO_OR_UNTIL(unit) THEN
        parse_hours_and_minutes_ago(unit, search_type)
    ELSE IF unit = TODAY THEN
        Resolved(NaiveDateTime_new(today, NaiveTime_from_hms(0, 0, 0)))
    ELSE IF unit = YESTERDAY THEN
        Resolved(NaiveDateTime_new(yesterday, NaiveTime_from_hms(0, 0, 0)))
    ELSE Invalid(unit)

\* Interval::new without the swap.
Interval_new_unswapped(start, end, clock) ==
    [start |-> start, end |-> IF end = None THEN clock ELSE end[1]]

\* Interval::new(start, end): end defaults to now(); the two are swapped
\* when start > end.
Interval_new(start, end, clock) ==
    LET e == IF end = None THEN clock ELSE end[1]
    IN  IF start > e THEN [start |-> e, end |-> start]
                     ELSE [start |-> start, end |-> e]

\* str::split(" - "): the pieces between the occurrences of the separator,
\* found from left to right.
SEPARATOR == <<" ", "-", " ">>

RECURSIVE split_separator(_)
split_separator(text) ==
    LET at(i) == SubSeq(text, i, i + 2) = SEPARATOR
        found == {i \in 1 .. Len(text) - 2 : at(i)}
    IN  IF found = {} THEN <<text>>
        ELSE LET i == CHOOSE i \in found : \A j \in found : i <= j
             IN  <<SubSeq(text, 1, i - 1)>>
                   \o split_separator(SubSeq(text, i + 3, Len(text)))

\* The outcomes of try_parse: an interval, a User error, and a panic.
NoInterval == [start |-> 0, end |-> 0]
Built(iv) == [tag |-> "Ok", interval |-> iv, message |-> <<>>]
Failed(error) == [tag |-> error.tag, interval |-> NoInterval, message |-> error.message]

\* What parse_time_input returns for each of the texts.
read_units(units, search_type) ==
    [unit \in units |-> parse_time_input(unit, search_type)]

\* The match of try_parse, on the pieces `units` of the input and on what
\* parse_time_input returns for the input and for its pieces: the input
\* read as one moment gives the interval that ends now(); when that is an
\* Err, two pieces are read as the two moments of a range, each `?`
\* returning the Err of its piece, and any other number of pieces returns
\* the Err of the whole input.
try_parse_match(str_interval, units, read) ==
    IF read[str_interval].tag = "Ok"
      THEN Built(Interval_new(NaiveDateTime_timestamp(read[str_interval].moment), None, now))
    ELSE IF read[str_interval].tag = "panic" THEN Failed(read[str_interval])
    ELSE IF Len(units) = 2
      THEN IF read[units[1]].tag # "Ok" THEN Failed(read[units[1]])
           ELSE IF read[units[2]].tag # "Ok" THEN Failed(read[units[2]])
           ELSE Built(Interval_new(NaiveDateTime_timestamp(read[units[1]].moment),
                                   Some(NaiveDateTime_timestamp(read[units[2]].moment)),
                                   now))
      ELSE Failed(read[str_interval])

\* try_parse on the pieces of str_interval.split(" - ").
try_parse_units(str_interval, units, search_type) ==
    try_parse_match(str_interval, units,
                    read_units({str_interval} \cup {units[i] : i \in DOMAIN units},
                               search_type))

\* try_parse that drops the moment of an input read as one moment.
try_parse_until_epoch(str_interval, search_type) ==
    IF parse_time_input(str_interval, search_type).tag = "Ok" THEN Built(NoInterval)
    ELSE try_parse_units(str_interval, split_separator(str_interval), search_type)

\* Interval::try_parse(str_interval, search_type).
try_parse(str_interval, search_type) ==
    try_parse_units(str_interval, split_separator(str_interval), search_type)

----------------------------------------------------------------------------
(* ProjectMap: project text -> (description text -> seconds) *)

EmptyMap == [p \in {} |-> 0]

\* add_event that overwrites the seconds of an existing entry.
add_event_overwriting(projects, time, event) ==
    LET p == to_project(event)
        d == to_description(event)
    IN  IF p \in DOMAIN projects
          THEN IF d \in DOMAIN projects[p]
                 THEN [projects EXCEPT ![p] = [@ EXCEPT ![d] = time]]
                 ELSE [projects EXCEPT ![p] = (d :> time) @@ @]
          ELSE (p :> (d :> time)) @@ projects

\* add_event / the add_event_to_hashmap closure: insert-or-add.
add_event(projects, time, event) ==
    LET p == to_project(event)
        d == to_description(event)
    IN  IF p \in DOMAIN projects
          THEN IF d \in DOMAIN projects[p]
                 THEN [projects EXCEPT ![p] = [@ EXCEPT ![d] = @ + time]]
                 ELSE [projects EXCEPT ![p] = (d :> time) @@ @]
          ELSE (p :> (d :> time)) @@ projects

\* add_clean_event / projects.insert(...): the project's entry is replaced.
add_clean_event(projects, time, event) ==
    LET p == to_project(event)
        d == to_description(event)
    IN  [q \in (DOMAIN projects) \cup {p} |->
            IF q = p THEN (d :> time) ELSE projects[q]]

\* The outcome of a fold over the chunks: the map so far, or a panic.
Ok(projects) == [ok |-> TRUE, map |-> projects]
Panic == [ok |-> FALSE, map |-> EmptyMap]

RECURSIVE add_events(_, _)
\* events.chunks(2).for_each(add_events_to_hashmap): each chunk credits
\* chunk[STOP].0 - chunk[START].0 to chunk[START].1.  The last chunk of a
\* slice of odd length has one element, and indexing it with STOP panics.
add_events(acc, events) ==
    IF events = <<>> THEN acc
    ELSE IF Len(events) = 1 THEN Panic
    ELSE add_events(
            Ok(add_event(acc.map, events[2].ts - events[1].ts, events[1].event)),
            SubSeq(events, 3, Len(events)))

----------------------------------------------------------------------------
(* LogFile *)

RECURSIVE filter_events_exclusive(_, _)
\* filter_events that drops the records on the end of the interval.
filter_events_exclusive(lines, iv) ==
    IF lines = <<>> THEN <<>>
    ELSE LET line == Head(lines)
             rest == filter_events_exclusive(Tail(lines), iv)
         IN  IF line.ts >= iv.start /\ line.ts < iv.end
               THEN <<[ts |-> line.ts, event |-> Event_from(line)]>> \o rest
               ELSE rest

RECURSIVE filter_events(_, _)
\* filter_events: every line is parsed into (timestamp, Event) and kept
\* when interval.start <= timestamp <= interval.end.
filter_events(lines, iv) ==
    IF lines = <<>> THEN <<>>
    ELSE LET line == Head(lines)
             rest == filter_events(Tail(lines), iv)
         IN  IF line.ts >= iv.start /\ line.ts <= iv.end
               THEN <<[ts |-> line.ts, event |-> Event_from(line)]>> \o rest
               ELSE rest

\* The three outcomes of tally_time: Ok(None), Ok(Some(map)), and a panic.
NoEvents == [tag |-> "None", map |-> EmptyMap]
SomeMap(projects) == [tag |-> "Some", map |-> projects]
Aborted == [tag |-> "panic", map |-> EmptyMap]
NotRun == [tag |-> "none yet", map |-> EmptyMap]

Finish(acc) == IF acc.ok THEN SomeMap(acc.map) ELSE Aborted

\* The extra event of a dangling Start or Stop, added after the chunks.
FinishWith(acc, time, event) ==
    IF acc.ok THEN SomeMap(add_event(acc.map, time, event)) ELSE Aborted

FinishWith2(acc, time1, event1, time2, event2) ==
    IF acc.ok
      THEN SomeMap(add_event(add_event(acc.map, time1, event1), time2, event2))
      ELSE Aborted

\* tally_time: the match over the filtered events.
tally_events(events, iv) ==
    LET n == Len(events)
        first == events[1]
        last == events[n]
    IN  IF n = 0 THEN NoEvents
        ELSE IF n = 1 /\ first.event.kind = "Stop"
          THEN SomeMap(add_clean_event(EmptyMap, first.ts - iv.start, first.event))
        ELSE IF n = 1
          THEN SomeMap(add_clean_event(EmptyMap, iv.end - first.ts, first.event))
        ELSE IF first.event.kind = "Start" /\ last.event.kind = "Stop"
          THEN Finish(add_events(Ok(EmptyMap), events))
        ELSE IF first.event.kind = "Start"
          THEN FinishWith(add_events(Ok(EmptyMap), SubSeq(events, 1, n - 1)),
                          iv.end - last.ts, last.event)
        ELSE IF last.event.kind = "Stop"
          THEN FinishWith(add_events(Ok(EmptyMap), SubSeq(events, 2, n)),
                          first.ts - iv.start, first.event)
        ELSE FinishWith2(add_events(Ok(EmptyMap), SubSeq(events, 2, n - 1)),
                         first.ts - iv.start, first.event,
                         iv.end - last.ts, last.event)

\* tally_time that tallies every record of the log, the ones outside the
\* interval included.
tally_time_unfiltered(lines, iv) ==
    tally_events([i \in DOMAIN lines |->
                     [ts |-> lines[i].ts, event |-> Event_from(lines[i])]], iv)

tally_time(lines, iv) == tally_events(filter_events(lines, iv), iv)

\* get_latest_event: the event of the last line, Stop(None, None) for an
\* empty log.
get_latest_event(lines) ==
    IF lines = <<>> THEN Stop(None, None) ELSE Event_from(lines[Len(lines)])

----------------------------------------------------------------------------
(* Exit codes of main *)

EXIT_OK == 0          \* Ok(0)
EXIT_NO_WORK == 1     \* Ok(1): `of` with nothing to print
EXIT_USER == 2        \* ErrorKind::User
EXIT_LOGFILE == 3     \* ErrorKind::LogFile
EXIT_SYSTEM == 4      \* ErrorKind::System
EXIT_PANIC == 101     \* the exit code of a Rust process that panics

----------------------------------------------------------------------------
(* Inputs *)

\* Every text of at most n atoms over the alphabet.
Texts(alphabet, n) ==
    UNION {[1 .. k -> alphabet] : k \in 0 .. n}

Options(texts) == {None} \cup {Some(t) : t \in texts}

Events(projects, descriptions) ==
    {Start(p, d) : p \in projects, d \in descriptions}
        \cup {Stop(p, d) : p \in projects, d \in descriptions}

\* Projects and descriptions of the commands.
Projects == {None, Some(<<"a">>)}
Descriptions == {None, Some(<<"x">>)}

\* The events of the tally.  They are tallied under three pairs in two
\* projects: a Start without project, a Start and a Stop of project "a"
\* with description "x", and a Stop of project "a" without description.
TallyEvents ==
    {Start(None, None), Start(Some(<<"a">>), Some(<<"x">>)),
     Stop(Some(<<"a">>), None), Stop(Some(<<"a">>), Some(<<"x">>))}

\* The events of the round trip: every text a command line can carry, the
\* empty text and texts with commas and blanks included.
Alphabet == {"a", COMMA, SPACE}
RoundTripEvents ==
    Events(Options(Texts(Alphabet, MaxStrLen)), Options(Texts(Alphabet, MaxStrLen)))

----------------------------------------------------------------------------
(* State.  The log and the clock outlive a command; the other variables   *)
(* are what the last command computed, and a command that does not        *)
(* compute one of them leaves it at its initial value.                    *)

NoArgs == [start |-> 0, end |-> None, clock |-> 0]
NoCommand == ""
NoParse == [call |-> "", unit |-> <<>>, search_type |-> "", given |-> <<>>, result |-> <<>>]

Init ==
    /\ log = <<>>
    /\ now = 0
    /\ interval = NoInterval
    /\ args = NoArgs
    /\ written = None
    /\ tally = NotRun
    /\ exit = 0 - 1
    /\ subcommand = NoCommand
    /\ parsed = NoParse

\* The clock advances.
Tick ==
    /\ now < MaxClock
    /\ now' = now + 1
    /\ UNCHANGED <<log, interval, args, written, tally, exit, subcommand, parsed>>

\* Interval::new(start, end).
NewInterval(start, end) ==
    /\ args' = [start |-> start, end |-> end, clock |-> now]
    /\ interval' = Interval_new(start, end, now)
    /\ written' = None
    /\ tally' = NotRun
    /\ exit' = EXIT_OK
    /\ subcommand' = NoCommand
    /\ parsed' = NoParse
    /\ UNCHANGED <<log, now>>

\* LogFile::write that truncates the file before it writes.
write_truncating(lines, line) == <<line>>

\* LogFile::write: the file is open in append mode, the line goes to its end.
write(lines, line) == Append(lines, line)

\* append_event(event, timestamp): the formatted line is written at the end
\* of the log.
append_event(event, timestamp) ==
    /\ log' = write(log, format_event(event, timestamp))
    /\ written' = Some(event)
    /\ interval' = NoInterval
    /\ args' = NoArgs
    /\ tally' = NotRun
    /\ exit' = EXIT_OK
    /\ parsed' = NoParse
    /\ UNCHANGED now

\* A command that ends with a User error: nothing is written.
user_error ==
    /\ exit' = EXIT_USER
    /\ written' = None
    /\ interval' = NoInterval
    /\ args' = NoArgs
    /\ tally' = NotRun
    /\ parsed' = NoParse
    /\ UNCHANGED <<log, now>>

is_working(event) == event.kind = "Start"

\* `start` without the check for work in progress.
start_unguarded(project, description) ==
    /\ subcommand' = "start"
    /\ append_event(Start(project, description), now)

\* The `start` command.
start(project, description) ==
    /\ subcommand' = "start"
    /\ IF is_working(get_latest_event(log))
         THEN user_error
         ELSE append_event(Start(project, description), now)

\* `stop` that writes a Stop without project and description.
stop_unlabelled ==
    /\ subcommand' = "stop"
    /\ IF get_latest_event(log).kind = "Stop"
         THEN user_error
         ELSE append_event(Stop(None, None), now)

\* The `stop` command: the Stop carries the project and the description of
\* the latest event.
stop ==
    /\ subcommand' = "stop"
    /\ LET event == get_latest_event(log)
       IN  IF event.kind = "Stop"
             THEN user_error
             ELSE append_event(Stop(event.project, event.description), now)

\* A command that only reads the log and ends with the exit code `code`.
read_only(code) ==
    /\ exit' = code
    /\ written' = None
    /\ interval' = NoInterval
    /\ args' = NoArgs
    /\ tally' = NotRun
    /\ parsed' = NoParse
    /\ UNCHANGED <<log, now>>

\* The `status` command: prints the latest event.
status ==
    /\ subcommand' = "status"
    /\ read_only(EXIT_OK)

\* `free` and `working` that answer yes whatever the latest event is.
working_or_free_always_yes(check_working) ==
    /\ subcommand' = IF check_working THEN "working" ELSE "free"
    /\ read_only(EXIT_OK)

\* The `free` (check_working = FALSE) and `working` (check_working = TRUE)
\* commands: exit code 0 when the answer is yes, 1 when it is no.
working_or_free(check_working) ==
    /\ subcommand' = IF check_working THEN "working" ELSE "free"
    /\ read_only(IF is_working(get_latest_event(log)) = check_working
                   THEN EXIT_OK ELSE EXIT_NO_WORK)

\* The `of` command on an input that try_parse resolves to the moment
\* `moment` (end = None: a single moment, the interval ends now) or to the
\* two moments of a range: the tally of the interval is printed; the exit
\* code is 1 when there is nothing to print, and a panic ends the process
\* with 101.
of(moment, end) ==
    /\ subcommand' = "of"
    /\ args' = [start |-> moment, end |-> end, clock |-> now]
    /\ interval' = Interval_new(moment, end, now)
    /\ tally' = tally_time(log, interval')
    /\ exit' = CASE tally'.tag = "Some" -> EXIT_OK
                 [] tally'.tag = "None" -> EXIT_NO_WORK
                 [] OTHER -> EXIT_PANIC
    /\ written' = None
    /\ parsed' = NoParse
    /\ UNCHANGED <<log, now>>

\* The time argument of since, until and between as try_parse resolves it:
\* no moment when it is rejected, one moment, or the two moments of a range.
\* A single moment gives Interval::new(moment, None), a range
\* Interval::new(first, Some(second)).
resolved_interval(time) ==
    Interval_new(time[1], IF Len(time) = 2 THEN Some(time[2]) ELSE None, now)

\* What a command that appends the lines `lines` leaves behind.
appended(lines, event, time) ==
    /\ log' = lines
    /\ written' = Some(event)
    /\ interval' = resolved_interval(time)
    /\ args' = [start |-> time[1],
                end |-> IF Len(time) = 2 THEN Some(time[2]) ELSE None,
                clock |-> now]
    /\ tally' = NotRun
    /\ exit' = EXIT_OK
    /\ parsed' = NoParse
    /\ UNCHANGED now

\* `since` that never appends the Stop.
since_unclosed(time, project, description, continue) ==
    /\ subcommand' = "since"
    /\ IF is_working(get_latest_event(log)) \/ time = <<>>
         THEN user_error
         ELSE appended(write(log, format_event(Start(project, description),
                                               resolved_interval(time).start)),
                       Start(project, description), time)

\* The `since` command: a Start at the start of the interval and, without
\* --continue, a Stop now.
since(time, project, description, continue) ==
    /\ subcommand' = "since"
    /\ IF is_working(get_latest_event(log)) \/ time = <<>>
         THEN user_error
         ELSE LET started == write(log, format_event(Start(project, description),
                                                     resolved_interval(time).start))
              IN  IF continue
                    THEN appended(started, Start(project, description), time)
                    ELSE appended(write(started, format_event(Stop(project, description), now)),
                                  Stop(project, description), time)

\* The `until` command: a Start now and a Stop at the end of the interval.
until(time, project, description) ==
    /\ subcommand' = "until"
    /\ IF is_working(get_latest_event(log)) \/ time = <<>>
         THEN user_error
         ELSE appended(write(write(log, format_event(Start(project, description), now)),
                             format_event(Stop(project, description),
                                          resolved_interval(time).end)),
                       Stop(project, description), time)

\* The `between` function: a Start at the start of the interval and a Stop
\* at its end.
between(time, project, description) ==
    /\ subcommand' = "between"
    /\ IF is_working(get_latest_event(log)) \/ time = <<>>
         THEN user_error
         ELSE appended(write(write(log, format_event(Start(project, description),
                                                     resolved_interval(time).start)),
                             format_event(Stop(project, description),
                                          resolved_interval(time).end)),
                       Stop(project, description), time)

\* The resolved time arguments of the commands: rejected, a moment, a range.
Moments == {<<>>} \cup {<<m>> : m \in Times}
Ranges == {<<>>} \cup {<<a, b>> : a \in Times, b \in Times}

\* The log is kept to MaxLog lines: a command runs when the n lines it may
\* append fit, or when it is rejected and appends nothing.
Room(n) == Len(log) + n <= MaxLog
Working == is_working(get_latest_event(log))

\* The commands start, stop and of, under a running clock.
Next ==
    \/ Tick
    \/ \E project \in Projects, description \in Descriptions :
          (Room(1) \/ Working) /\ start(project, description)
    \/ (Room(1) \/ ~Working) /\ stop
    \/ \E s \in Clock, e \in Options(Clock) : of(s, e)

Spec == Init /\ [][Next]_vars

\* Every command that reads or writes the log, under a running clock; the
\* commands that take a time argument record work on the project "a".
CommandNext ==
    \/ Tick
    \/ \E project \in Projects :
          (Room(1) \/ Working) /\ start(project, None)
    \/ (Room(1) \/ ~Working) /\ stop
    \/ status
    \/ \E check_working \in BOOLEAN : working_or_free(check_working)
    \/ \E s \in Times : of(s, None)
    \/ \E time \in Moments, continue \in BOOLEAN :
          (Room(2) \/ Working) /\ since(time, Some(<<"a">>), None, continue)
    \/ \E time \in Moments :
          (Room(2) \/ Working) /\ until(time, Some(<<"a">>), None)
    \/ \E time \in Ranges :
          (Room(2) \/ Working) /\ between(time, Some(<<"a">>), None)

CommandSpec == Init /\ [][CommandNext]_vars

\* Interval::new on every pair of timestamps, under a running clock.
IntervalNext ==
    \/ Tick
    \/ \E s \in Stamps, e \in Options(Stamps) : NewInterval(s, e)

IntervalSpec == Init /\ [][IntervalNext]_vars

\* Any records appended to the log, and `of` over any interval.
TallyNext ==
    \/ \E event \in TallyEvents, timestamp \in Times :
          Len(log) < MaxLog /\ append_event(event, timestamp) /\ subcommand' = NoCommand
    \/ \E s \in Times, e \in Options(Times) : of(s, e)

TallySpec == Init /\ [][TallyNext]_vars

\* The events of a project that is named like the label of no project:
\* with and without the project text "Unnamed project".
LabelEvents ==
    Events({None, Some(<<"Unnamed project">>)}, {None})

\* Any of these records appended to the log, and `of` over any interval.
LabelNext ==
    \/ \E event \in LabelEvents, timestamp \in Times :
          Len(log) < MaxLog /\ append_event(event, timestamp) /\ subcommand' = NoCommand
    \/ \E s \in Times, e \in Options(Times) : of(s, e)

LabelSpec == Init /\ [][LabelNext]_vars

\* One event written to an empty log.
RoundTripNext ==
    \E event \in RoundTripEvents, timestamp \in Times :
        log = <<>> /\ append_event(event, timestamp) /\ subcommand' = NoCommand

RoundTripSpec == Init /\ [][RoundTripNext]_vars

----------------------------------------------------------------------------
(* The time functions on a clock at any of a set of dates and times *)

\* The dates of the clock: the first, a middle and the last days of
\* January, February (of a leap year and of a common year), March, May and
\* December.
ClockDates ==
    {NaiveDate_from_ymd(year, month, day) :
        year \in {2023, 2024}, month \in {1, 2, 3, 5, 12}, day \in {1, 15, 28, 29, 30, 31}}
        \ {NoDate}

ClockTimes ==
    {NaiveTime_from_hms(0, 0, 0), NaiveTime_from_hms(10, 30, 0),
     NaiveTime_from_hms(10, 30, 20), NaiveTime_from_hms(23, 59, 59)}

\* The decimal text of a number below 100, and the same on two digits.
digit_char(n) == CHOOSE c \in Digits : digit_value(c) = n
decimal(n) == IF n < 10 THEN <<digit_char(n)>> ELSE <<digit_char(n \div 10), digit_char(n % 10)>>
padded(n) == <<digit_char(n \div 10), digit_char(n % 10)>>

GivenHours == {0, 10, 23}
GivenMinutes == {0, 30}
GivenDays == {1, 15, 29, 30, 31}
GivenMonths == {1, 2, 3, 12}

HourUnits == {decimal(h) : h \in GivenHours} \cup {padded(0)}
HourMinutesUnits ==
    {decimal(h) \o <<":">> \o padded(m) : h \in GivenHours, m \in GivenMinutes}
        \cup {<<"0", "9", ":", "5">>}
DayUnits == {decimal(d) \o <<" ">> \o t : d \in GivenDays, t \in HourMinutesUnits}
DayMonthUnits ==
    {decimal(d) \o <<"-">> \o decimal(m) \o <<" ", "1", "0", ":", "3", "0">> :
        d \in {1, 15, 31}, m \in GivenMonths}
AgoUnits ==
    {<<"1", "h">>, <<"2", "3", "h">>, <<"1", "m">>, <<"5", "9", "m">>,
     <<"0", ":", "0", "h">>, <<"1", ":", "3", "0", "h">>}
OtherUnits == {TODAY, YESTERDAY, <<"2", "4">>, <<"x">>, <<>>}

Units == HourUnits \cup HourMinutesUnits \cup DayUnits \cup DayMonthUnits
            \cup AgoUnits \cup OtherUnits

\* The clock stands at one of the dates and times.
ParseInit ==
    /\ log = <<>>
    /\ now \in {NaiveDateTime_timestamp(NaiveDateTime_new(date, time)) :
                    date \in ClockDates, time \in ClockTimes}
    /\ interval = NoInterval
    /\ args = NoArgs
    /\ written = None
    /\ tally = NotRun
    /\ exit = 0 - 1
    /\ subcommand = NoCommand
    /\ parsed = NoParse

\* A call of a time function: what it was called with, and what it returned.
time_call(call, unit, search_type, given, result) ==
    /\ parsed' = [call |-> call, unit |-> unit, search_type |-> search_type,
                  given |-> given, result |-> result]
    /\ UNCHANGED <<log, now, interval, args, written, tally, exit, subcommand>>

parse(unit, search_type) ==
    time_call("parse_time_input", unit, search_type, <<>>,
              parse_time_input(unit, search_type))

ambiguous_date(given_time, search_type) ==
    time_call("get_ambiguous_date", <<>>, search_type, given_time,
              get_ambiguous_date(given_time, search_type))

\* get_ambiguous_month is called with the day `given_day` of this month.
ambiguous_month(given_day, search_type) ==
    /\ this_month(given_day) # NoDate
    /\ time_call("get_ambiguous_month", <<>>, search_type, this_month(given_day),
                 get_ambiguous_month(this_month(given_day), search_type))

ambiguous_year(given_date, search_type) ==
    time_call("get_ambiguous_year", <<>>, search_type, given_date,
              get_ambiguous_year(given_date, search_type))

\* One call of one time function.
ParseNext ==
    \/ \E unit \in Units, search_type \in {Backward, Forward} :
          parsed = NoParse /\ parse(unit, search_type)
    \/ \E given_time \in ClockTimes \cup {NaiveTime_from_hms(10, 0, 0)},
          search_type \in {Backward, Forward} :
          parsed = NoParse /\ ambiguous_date(given_time, search_type)
    \/ \E given_day \in GivenDays, search_type \in {Backward, Forward} :
          parsed = NoParse /\ ambiguous_month(given_day, search_type)
    \/ \E given_date \in ClockDates, search_type \in {Backward, Forward} :
          parsed = NoParse /\ ambiguous_year(given_date, search_type)

ParseSpec == ParseInit /\ [][ParseNext]_vars

----------------------------------------------------------------------------
(* parse_time_input on texts that are specifiers and texts that are not *)

\* Every text of at most MaxUnitLen characters: digits that are in and out
\* of the ranges of the patterns, a digit that is not ASCII, the characters
\* of the patterns, and a letter of no pattern.
UnitAlphabet == {"0", "1", "2", "4", "6", "U+0663", ":", "h", "m", " ", "-", "x"}
ShortUnits == Texts(UnitAlphabet, MaxUnitLen)

\* The fields of the longer texts, at and beyond the ends of their ranges.
HourFields == {<<"0">>, <<"0", "9">>, <<"2", "3">>, <<"2", "4">>, <<"1", "U+0663">>}
MinuteFields == {<<"5">>, <<"0", "0">>, <<"5", "9">>, <<"6", "0">>}
DayFields == {<<"0">>, <<"1">>, <<"0", "9">>, <<"3", "1">>, <<"3", "2">>}
MonthFields == {<<"0">>, <<"1">>, <<"0", "9">>, <<"1", "2">>, <<"1", "3">>}
Blanks == {<<" ">>, <<"\t">>}

TimeFields == {h \o <<":">> \o m : h \in HourFields, m \in MinuteFields}
LongUnits ==
    TimeFields
      \cup {t \o <<"h">> : t \in TimeFields}
      \cup {d \o b \o t : d \in DayFields, b \in Blanks, t \in TimeFields}
      \cup {d \o <<"-">> \o m \o b \o t :
               d \in DayFields, m \in MonthFields, b \in Blanks,
               t \in {<<"1", "0", ":", "3", "0">>, <<"2", "4", ":", "0", "0">>}}
      \cup {h \o <<"h">> : h \in HourFields} \cup {m \o <<"m">> : m \in MinuteFields}
      \cup {<<"0", "1", "0">>, <<"1", "0", "0">>, <<"0", "0", "5", "h">>}
      \cup {TODAY, YESTERDAY, TODAY \o <<" ">>, <<" ">> \o YESTERDAY,
            <<"T">> \o after(TODAY, 1), TODAY \o YESTERDAY}

GrammarUnits == ShortUnits \cup LongUnits

\* The clock stands in a month of 31 days.
GrammarInit ==
    /\ log = <<>>
    /\ now = NaiveDateTime_timestamp(
                 NaiveDateTime_new(NaiveDate_from_ymd(2024, 3, 15),
                                   NaiveTime_from_hms(10, 30, 20)))
    /\ interval = NoInterval
    /\ args = NoArgs
    /\ written = None
    /\ tally = NotRun
    /\ exit = 0 - 1
    /\ subcommand = NoCommand
    /\ parsed = NoParse

GrammarNext ==
    /\ parsed = NoParse
    /\ \E unit \in GrammarUnits, search_type \in {Backward, Forward} :
          parse(unit, search_type)

GrammarSpec == GrammarInit /\ [][GrammarNext]_vars

----------------------------------------------------------------------------
(* try_parse on single specifiers and on ranges *)

\* The specifiers of the ranges: one of each form that reads a moment, one
\* that is read with a panic, and one that is no specifier.
RangeUnits ==
    {<<"1", "0">>, <<"9", ":", "5">>, <<"1", "h">>, <<"3", "0", "m">>,
     <<"1", ":", "3", "0", "h">>, TODAY, YESTERDAY, <<"x">>}

\* The inputs of try_parse: a specifier, two specifiers with the separator
\* between them, and inputs with two separators.
RangeInputs ==
    RangeUnits
      \cup {a \o SEPARATOR \o b : a \in RangeUnits, b \in RangeUnits}
      \cup {<<"1", "0">> \o SEPARATOR \o TODAY \o SEPARATOR \o <<"1", "h">>,
            <<"x">> \o SEPARATOR \o SEPARATOR}

\* The clock of the ranges: a morning, and the second before midnight on
\* the last day of a year.
RangeInit ==
    /\ log = <<>>
    /\ now \in {NaiveDateTime_timestamp(NaiveDateTime_new(date, time)) :
                    date \in {NaiveDate_from_ymd(2024, 3, 1), NaiveDate_from_ymd(2023, 12, 31)},
                    time \in ClockTimes}
    /\ interval = NoInterval
    /\ args = NoArgs
    /\ written = None
    /\ tally = NotRun
    /\ exit = 0 - 1
    /\ subcommand = NoCommand
    /\ parsed = NoParse

\* A call of Interval::try_parse.
parse_interval(str_interval, search_type) ==
    /\ parsed' = [call |-> "try_parse", unit |-> str_interval,
                  search_type |-> search_type, given |-> <<>>,
                  result |-> try_parse(str_interval, search_type)]
    /\ interval' = parsed'.result.interval
    /\ UNCHANGED <<log, now, args, written, tally, exit, subcommand>>

RangeNext ==
    /\ parsed = NoParse
    /\ \E str_interval \in RangeInputs, search_type \in {Backward, Forward} :
          parse_interval(str_interval, search_type)

RangeSpec == RangeInit /\ [][RangeNext]_vars

----------------------------------------------------------------------------
(* The commands on time arguments as they are typed *)

\* time::today_date_time(): midnight of today.
today_date_time == NaiveDateTime_new(today, NaiveTime_from_hms(0, 0, 0))

\* `of` that keeps the end try_parse gave, also for `yesterday`.
of_parsed_until_now(interval_input, result) ==
    /\ subcommand' = "of"
    /\ parsed' = [call |-> "of", unit |-> interval_input, search_type |-> Backward,
                  given |-> <<>>, result |-> result]
    /\ interval' = result.interval
    /\ tally' = IF result.tag = "Ok" THEN tally_time(log, interval') ELSE NotRun
    /\ exit' = CASE result.tag = "panic" -> EXIT_PANIC
                 [] result.tag = "Err" -> EXIT_USER
                 [] tally'.tag = "Some" -> EXIT_OK
                 [] tally'.tag = "None" -> EXIT_NO_WORK
                 [] OTHER -> EXIT_PANIC
    /\ args' = [start |-> interval'.start, end |-> Some(interval'.end), clock |-> now]
    /\ written' = None
    /\ UNCHANGED <<log, now>>

\* The `of` command on the input `interval_input` that try_parse, searching
\* backward, has read as `result`: an error ends the command; the interval
\* of `yesterday` ends at the midnight of today; the tally of the interval
\* is printed, with the exit code 1 when there is nothing to print.
of_parsed(interval_input, result) ==
    /\ subcommand' = "of"
    /\ parsed' = [call |-> "of", unit |-> interval_input, search_type |-> Backward,
                  given |-> <<>>, result |-> result]
    /\ interval' = IF result.tag = "Ok" /\ interval_input = YESTERDAY
                     THEN [result.interval EXCEPT
                             !.end = NaiveDateTime_timestamp(today_date_time)]
                     ELSE result.interval
    /\ tally' = IF result.tag = "Ok" THEN tally_time(log, interval') ELSE NotRun
    /\ exit' = CASE result.tag = "panic" -> EXIT_PANIC
                 [] result.tag = "Err" -> EXIT_USER
                 [] tally'.tag = "Some" -> EXIT_OK
                 [] tally'.tag = "None" -> EXIT_NO_WORK
                 [] OTHER -> EXIT_PANIC
    /\ args' = [start |-> interval'.start, end |-> Some(interval'.end), clock |-> now]
    /\ written' = None
    /\ UNCHANGED <<log, now>>

of_input(interval_input) ==
    of_parsed(interval_input, try_parse(interval_input, Backward))

\* The interval of an Ok(interval) as the time argument of since, until and
\* between; an Err(e) leaves none and the `?` returns the error.
time_argument(result) ==
    IF result.tag = "Ok" THEN <<result.interval.start, result.interval.end>> ELSE <<>>

\* A command whose try_parse panics: the process ends before it writes.
aborted(command) ==
    /\ subcommand' = command
    /\ read_only(EXIT_PANIC)

\* since, until and between on the time argument `time` as it is typed:
\* the latest event is looked at first, then the argument is read.
since_input(time, project, description, continue) ==
    IF ~Working /\ try_parse(time, Backward).tag = "panic"
      THEN aborted("since")
      ELSE since(time_argument(try_parse(time, Backward)), project, description, continue)

until_input(time, project, description) ==
    IF ~Working /\ try_parse(time, Forward).tag = "panic"
      THEN aborted("until")
      ELSE until(time_argument(try_parse(time, Forward)), project, description)

between_input(time, project, description) ==
    IF ~Working /\ try_parse(time, Backward).tag = "panic"
      THEN aborted("between")
      ELSE between(time_argument(try_parse(time, Backward)), project, description)

\* The time arguments: an offset, the two words, a range, a text that is
\* no specifier, and two specifiers that are read with a panic.
TimedInputs ==
    {<<"1", "h">>, TODAY, YESTERDAY, <<"1", "h">> \o SEPARATOR \o TODAY,
     <<"x">>, <<"1", ":", "3", "0", "h">>, <<"1", "U+0663", "h">>}

\* The inputs of `of`: the two words, an offset, and a text that is no
\* specifier.
OfInputs == {TODAY, YESTERDAY, <<"1", "h">>, <<"x">>}

\* The clock starts half an hour after a midnight and advances by half
\* hours.
FirstClock ==
    NaiveDateTime_timestamp(NaiveDateTime_new(NaiveDate_from_ymd(2024, 3, 1),
                                              NaiveTime_from_hms(0, 30, 0)))
HalfHour == 30 * SECONDS_IN_MINUTE

TimedInit ==
    /\ log = <<>>
    /\ now = FirstClock
    /\ interval = NoInterval
    /\ args = NoArgs
    /\ written = None
    /\ tally = NotRun
    /\ exit = 0 - 1
    /\ subcommand = NoCommand
    /\ parsed = NoParse

Pass ==
    /\ now < FirstClock + MaxClock * HalfHour
    /\ now' = now + HalfHour
    /\ UNCHANGED <<log, interval, args, written, tally, exit, subcommand, parsed>>

\* start, stop, since, until, between and of, the time arguments as they
\* are typed, under a running clock, for the projects `projects`, on a log
\* that is kept to `lines` lines.
TimedCommands(lines, projects) ==
    \/ Pass
    \/ \E project \in projects :
          (Len(log) + 1 <= lines \/ Working) /\ start(project, None)
    \/ (Len(log) + 1 <= lines \/ ~Working) /\ stop
    \/ \E interval_input \in OfInputs : of_input(interval_input)
    \/ \E time \in TimedInputs, project \in projects, continue \in BOOLEAN :
          (Len(log) + 2 <= lines \/ Working)
            /\ since_input(time, project, None, continue)
    \/ \E time \in TimedInputs, project \in projects :
          (Len(log) + 2 <= lines \/ Working) /\ until_input(time, project, None)
    \/ \E time \in TimedInputs, project \in projects :
          (Len(log) + 2 <= lines \/ Working) /\ between_input(time, project, None)

TimedNext == TimedCommands(MaxLog, {Some(<<"a">>)})

TimedSpec == TimedInit /\ [][TimedNext]_vars

\* The same commands on a log with room for a command after an `until`.
SequenceNext == TimedCommands(MaxLog + 1, {Some(<<"a">>)})

SequenceSpec == TimedInit /\ [][SequenceNext]_vars

\* The same commands for any project: none, a word, a text with a comma.
FreeTextNext == TimedCommands(MaxLog, {None, Some(<<"a">>), Some(<<"a", COMMA, "b">>)})

FreeTextSpec == TimedInit /\ [][FreeTextNext]_vars

----------------------------------------------------------------------------
(* The tally of the logs that start and stop build *)

\* The projects and descriptions of the sessions.
SessionLabels == {<<None, None>>, <<Some(<<"a">>), Some(<<"x">>)>>}

\* The record at position i of such a log: a Start at the odd positions and
\* a Stop at the even ones, as append_event writes them.
session_line(i, label, timestamp) ==
    format_event(IF i % 2 = 1 THEN Start(label[1], label[2]) ELSE Stop(label[1], label[2]),
                 timestamp)

\* The logs of at most MaxLog + 2 records that alternate Start, Stop, ...,
\* beginning with a Start, with timestamps that never go back; the last
\* session may be open.
SessionLogs ==
    UNION {{[i \in 1 .. n |-> session_line(i, labels[i], stamps[i])] :
               labels \in [1 .. n -> SessionLabels],
               stamps \in {t \in [1 .. n -> Times] :
                             \A i \in 1 .. n - 1 : t[i] <= t[i + 1]}} :
           n \in 0 .. MaxLog + 2}

SessionsInit ==
    /\ log \in SessionLogs
    /\ now = 0
    /\ interval = NoInterval
    /\ args = NoArgs
    /\ written = None
    /\ tally = NotRun
    /\ exit = 0 - 1
    /\ subcommand = NoCommand
    /\ parsed = NoParse

\* `of` over any interval.
SessionsNext ==
    /\ tally = NotRun
    /\ \E s \in Times, e \in Times : of(s, Some(e))

SessionsSpec == SessionsInit /\ [][SessionsNext]_vars

----------------------------------------------------------------------------
(* Interval normalization *)

Min(a, b) == IF a <= b THEN a ELSE b
Max(a, b) == IF a <= b THEN b ELSE a

\* The end Interval::new was called with: the given one, or the clock.
ArgEnd == IF args.end = None THEN args.clock ELSE args.end[1]

IntervalBuilt == exit # 0 - 1

\* C1: Interval::new(start, end) accepts every pair of timestamps and
\* returns (min(start, end), max(start, end)), so that start <= end; an end
\* that is not given is the clock of the call.
C1_IntervalNormalized ==
    IntervalBuilt =>
        /\ interval.start <= interval.end
        /\ interval.start = Min(args.start, ArgEnd)
        /\ interval.end = Max(args.start, ArgEnd)

\* C1 witness: a call with start > end, whose result is the swapped pair.
C1_Witness ==
    /\ IntervalBuilt
    /\ args.end # None
    /\ args.start > args.end[1]
    /\ interval = [start |-> args.end[1], end |-> args.start]

----------------------------------------------------------------------------
(* The tally, stated from the table of session shapes *)

\* `of` was the last command: tally, interval and log belong together.
AfterOf == tally.tag # "none yet"

\* The filtered records of the last `of`.
Filtered == filter_events(log, interval)

\* The (project, description) a record is tallied under.
Key(record) == <<to_project(record.event), to_description(record.event)>>

\* The pairs with an entry in the map.
StoredKeys(projects) ==
    UNION {{<<p, d>> : d \in DOMAIN projects[p]} : p \in DOMAIN projects}

\* The seconds stored for a pair, 0 when it has no entry.
Value(projects, k) ==
    IF k \in StoredKeys(projects) THEN projects[k[1]][k[2]] ELSE 0

\* A dangling leading Stop, a dangling trailing Start, and what is left
\* when they are set aside.
HasLead(events) == events # <<>> /\ events[1].event.kind = "Stop"
HasTrail(events) == events # <<>> /\ events[Len(events)].event.kind = "Start"
Middle(events) ==
    SubSeq(events,
           IF HasLead(events) THEN 2 ELSE 1,
           IF HasTrail(events) THEN Len(events) - 1 ELSE Len(events))

LeadCredit(events, iv, k) ==
    IF HasLead(events) /\ Key(events[1]) = k
      THEN events[1].ts - iv.start ELSE 0

TrailCredit(events, iv, k) ==
    IF HasTrail(events) /\ Key(events[Len(events)]) = k
      THEN iv.end - events[Len(events)].ts ELSE 0

\* The seconds the 2-element chunks of m credit to k: the chunk
\* (m[2i-1], m[2i]) credits m[2i].ts - m[2i-1].ts to the pair of m[2i-1].
ChunkCredit(m, k) ==
    LET n == Len(m) \div 2
        sum[i \in 0 .. n] ==
            IF i = 0 THEN 0
            ELSE sum[i - 1]
                   + (IF Key(m[2 * i - 1]) = k THEN m[2 * i].ts - m[2 * i - 1].ts ELSE 0)
    IN  sum[n]

\* The pairs something is credited to.
CreditedKeys(events) ==
    (IF HasLead(events) THEN {Key(events[1])} ELSE {})
        \cup (IF HasTrail(events) THEN {Key(events[Len(events)])} ELSE {})
        \cup {Key(Middle(events)[2 * i - 1]) : i \in 1 .. (Len(Middle(events)) \div 2)}

TallyKeys == StoredKeys(tally.map) \cup {Key(Filtered[i]) : i \in DOMAIN Filtered}

\* C2: when the dangling leading Stop and the dangling trailing Start are
\* set aside, the remaining filtered records are paired into consecutive
\* chunks, and what the tally holds for a pair beyond the two dangling
\* credits is the sum of stop.timestamp - start.timestamp over the chunks
\* whose Start has that pair.
C2_ChunksCredited ==
    (AfterOf /\ Filtered # <<>>) =>
        /\ tally.tag = "Some"
        /\ \A k \in TallyKeys :
              Value(tally.map, k)
                  - LeadCredit(Filtered, interval, k) - TrailCredit(Filtered, interval, k)
                = ChunkCredit(Middle(Filtered), k)

\* C3: whenever the first filtered record is a Stop, the tally credits
\* first.timestamp - interval.start to the pair of that Stop, on top of what
\* the remaining records contribute.
C3_LeadingStopCredited ==
    (AfterOf /\ HasLead(Filtered)) =>
        /\ tally.tag = "Some"
        /\ \A k \in TallyKeys :
              Value(tally.map, k)
                = LeadCredit(Filtered, interval, k)
                    + (ChunkCredit(Middle(Filtered), k) + TrailCredit(Filtered, interval, k))

\* C4: whenever the last filtered record is a Start, the tally credits
\* interval.end - last.timestamp to the pair of that Start, on top of what
\* the records before it contribute.
C4_TrailingStartCredited ==
    (AfterOf /\ HasTrail(Filtered)) =>
        /\ tally.tag = "Some"
        /\ \A k \in TallyKeys :
              Value(tally.map, k)
                = (LeadCredit(Filtered, interval, k) + ChunkCredit(Middle(Filtered), k))
                    + TrailCredit(Filtered, interval, k)

\* Some record of the log has its timestamp inside the interval.
RecordInside ==
    \E i \in DOMAIN log : interval.start <= log[i].ts /\ log[i].ts <= interval.end

\* C5: the tally is 'no events' exactly when no record of the log lies in
\* the interval; records in the interval always give a map with at least
\* one entry; and `of` reports 'no events' with exit code 1, not with the
\* exit code of an error.
C5_NoEventsOutcome ==
    AfterOf =>
        /\ (tally.tag = "None") <=> ~RecordInside
        /\ RecordInside => (tally.tag = "Some" /\ StoredKeys(tally.map) # {})
        /\ (tally.tag = "None") => exit = EXIT_NO_WORK
        /\ (tally.tag = "None") => exit \notin {EXIT_USER, EXIT_LOGFILE, EXIT_SYSTEM, EXIT_PANIC}

\* C7: after a tally, the pairs with an entry are the pairs something was
\* credited to, every entry holds the sum of everything credited to its
\* pair, and no project is left without a description.
C7_InsertOrAdd ==
    (AfterOf /\ tally.tag = "Some") =>
        /\ StoredKeys(tally.map) = CreditedKeys(Filtered)
        /\ \A p \in DOMAIN tally.map : DOMAIN tally.map[p] # {}
        /\ \A k \in StoredKeys(tally.map) :
              tally.map[k[1]][k[2]]
                = LeadCredit(Filtered, interval, k)
                    + ChunkCredit(Middle(Filtered), k)
                    + TrailCredit(Filtered, interval, k)

\* C7 witness: a leading Stop and a trailing Start of the same pair, each
\* credited one second, and the entry of the pair holds two.
C7_Witness ==
    /\ AfterOf /\ tally.tag = "Some"
    /\ Len(Filtered) = 2
    /\ HasLead(Filtered) /\ HasTrail(Filtered)
    /\ Key(Filtered[1]) = Key(Filtered[2])
    /\ LeadCredit(Filtered, interval, Key(Filtered[1])) = 1
    /\ TrailCredit(Filtered, interval, Key(Filtered[1])) = 1
    /\ Value(tally.map, Key(Filtered[1])) = 2

\* C8: for every filtered sequence the tally is a map or 'no events'; it
\* never aborts.
C8_NeverAborts ==
    AfterOf => (tally.tag \in {"Some", "None"} /\ exit # EXIT_PANIC)

----------------------------------------------------------------------------
(* The filter *)

InInterval(line) == interval.start <= line.ts /\ line.ts <= interval.end

\* The positions of the log whose timestamp lies in the interval, and the
\* j-th of them in log order.
Kept == {i \in DOMAIN log : InInterval(log[i])}
NthKept(j) == CHOOSE i \in Kept : Cardinality({m \in Kept : m <= i}) = j

\* C6: filter_events returns the records with interval.start <= timestamp
\* <= interval.end, the ones on either boundary included, in log order; and
\* the records outside the interval do not influence the tally: the tally
\* is the tally of the log without them.
C6_FilterInclusive ==
    AfterOf =>
        /\ Len(Filtered) = Cardinality(Kept)
        /\ \A j \in DOMAIN Filtered :
              Filtered[j]
                = [ts |-> log[NthKept(j)].ts, event |-> Event_from(log[NthKept(j)])]
        /\ tally = tally_time(SelectSeq(log, InInterval), interval)

\* C6 witness: `of` over an interval that keeps a record on its boundary
\* and drops another record of the log.
C6_Witness ==
    /\ AfterOf
    /\ interval.start < interval.end
    /\ \E i \in DOMAIN log : log[i].ts = interval.end
    /\ \E i \in DOMAIN log : ~InInterval(log[i])
    /\ Len(Filtered) = 1
    /\ tally.tag = "Some"

----------------------------------------------------------------------------
(* Sessions *)

Parsed(i) == Event_from(log[i])

\* The log alternates Start, Stop, Start, ... beginning with a Start.
Alternating ==
    \A i \in DOMAIN log :
        Parsed(i).kind = (IF i % 2 = 1 THEN "Start" ELSE "Stop")

NonDecreasing ==
    \A i \in DOMAIN log : \A j \in DOMAIN log : i <= j => log[i].ts <= log[j].ts

\* Every Stop carries the project and the description of its Start.
StopsMatch ==
    \A i \in DOMAIN log :
        i % 2 = 0 => /\ Parsed(i).project = Parsed(i - 1).project
                     /\ Parsed(i).description = Parsed(i - 1).description

\* The session that starts at the odd position i ends at the next record;
\* the unclosed last one runs until the end of the interval.
SessionEnd(i) == IF i + 1 <= Len(log) THEN log[i + 1].ts ELSE interval.end

SessionOverlap(i) ==
    LET from == Max(log[i].ts, interval.start)
        to == Min(SessionEnd(i), interval.end)
    IN  IF to > from THEN to - from ELSE 0

SessionKey(i) == <<to_project(Parsed(i)), to_description(Parsed(i))>>

\* The seconds the sessions of the pair k overlap the interval.
Overlap(k) ==
    LET sum[i \in 0 .. Len(log)] ==
            IF i = 0 THEN 0
            ELSE sum[i - 1]
                   + (IF i % 2 = 1 /\ SessionKey(i) = k THEN SessionOverlap(i) ELSE 0)
    IN  sum[Len(log)]

\* C9: for a log that alternates Start/Stop with non-decreasing timestamps
\* and any interval, the time tallied for a pair is the time the sessions of
\* the pair overlap the interval.
C9_TallyIsOverlap ==
    (AfterOf /\ Alternating /\ NonDecreasing /\ StopsMatch) =>
        /\ tally.tag \in {"Some", "None"}
        /\ \A k \in StoredKeys(tally.map) \cup {SessionKey(i) : i \in DOMAIN log} :
              Value(tally.map, k) = Overlap(k)

----------------------------------------------------------------------------
(* Round trip *)

\* A text of ordinary characters: not empty, no comma, no blank.
Plain(text) == text # <<>> /\ \A i \in DOMAIN text : text[i] \notin {COMMA, SPACE}

PlainEvent(event) ==
    /\ event.project = None \/ Plain(event.project[1])
    /\ event.description = None \/ Plain(event.description[1])

\* C10: for both kinds and every combination of a present or absent
\* project and description, the line append_event writes is parsed back by
\* Event::from into the event that was written.
C10_RoundTrip ==
    (written # None /\ PlainEvent(written[1])) =>
        Event_from(log[Len(log)]) = written[1]

----------------------------------------------------------------------------
(* The commands and the log *)

\* `lines` is the beginning of `longer`.
IsPrefix(lines, longer) ==
    /\ Len(lines) <= Len(longer)
    /\ SubSeq(longer, 1, Len(lines)) = lines

ReadOnlyCommands == {"status", "free", "working", "of"}

\* C11: the log is append-only: across every step of every command the log
\* before is a prefix of the log after, so that no record is changed or
\* removed, and status, free, working and of leave the log as it was.
C11_AppendOnly ==
    [][/\ IsPrefix(log, log')
       /\ (now' = now /\ subcommand' \in ReadOnlyCommands) => log' = log]_vars

\* C11 witness: `of` has read a log of two records, written one after the
\* other, and tallied them.
C11_Witness ==
    /\ subcommand = "of"
    /\ Len(log) = 2
    /\ tally.tag = "Some"
    /\ written = None

\* The text of an optional project or description in a log line.
FieldText(option) == IF option = None THEN <<>> ELSE option[1]

----------------------------------------------------------------------------
(* Resolution of ambiguous time specifiers *)

\* The seconds since midnight of the clock, and the midnight of today.
SecondsOfToday == now % SECONDS_IN_DAY
Midnight == now - SecondsOfToday

\* The hour and the minute a `H` or `H:M` specifier gives, in seconds since
\* midnight.
GivenSeconds(unit) ==
    IF find(unit, {":"}) = 0
      THEN from_str_radix(unit) * SECONDS_IN_HOUR
      ELSE from_str_radix(before(unit, find(unit, {":"}))) * SECONDS_IN_HOUR
             + from_str_radix(after(unit, find(unit, {":"}))) * SECONDS_IN_MINUTE

\* The day a time of day falls on: 0 today, -1 yesterday, 1 tomorrow.
DayOfTime(seconds, search_type) ==
    IF seconds > SecondsOfToday
      THEN IF search_type = Backward THEN 0 - 1 ELSE 0
      ELSE IF search_type = Backward THEN 0 ELSE 1

ParsedTimeOfDay ==
    /\ parsed.call = "parse_time_input"
    /\ AT_HOUR(parsed.unit) \/ AT_HOUR_MINUTES(parsed.unit)

\* C14: a specifier of the form H or H:M resolves to the given time on
\* yesterday (Backward) or today (Forward) when the given time is later than
\* the current time, and on today (Backward) or tomorrow (Forward)
\* otherwise.
C14_TimeOfDay ==
    /\ ParsedTimeOfDay =>
          /\ parsed.result.tag = "Ok"
          /\ NaiveDateTime_timestamp(parsed.result.moment)
               = Midnight
                   + DayOfTime(GivenSeconds(parsed.unit), parsed.search_type) * SECONDS_IN_DAY
                   + GivenSeconds(parsed.unit)
    /\ parsed.call = "get_ambiguous_date" =>
          days_from_civil(parsed.result) * SECONDS_IN_DAY
            = Midnight
                + DayOfTime(parsed.given.hour * SECONDS_IN_HOUR
                              + parsed.given.minute * SECONDS_IN_MINUTE
                              + parsed.given.second,
                            parsed.search_type) * SECONDS_IN_DAY

\* C14 witness: at 00:00:00 on the first of January, `23:30` searched
\* backward is on the 31st of December of the year before.
C14_Witness ==
    /\ ParsedTimeOfDay
    /\ parsed.unit = <<"2", "3", ":", "3", "0">>
    /\ parsed.search_type = Backward
    /\ now_date_time = NaiveDateTime_new(NaiveDate_from_ymd(2024, 1, 1),
                                         NaiveTime_from_hms(0, 0, 0))
    /\ parsed.result
         = Resolved(NaiveDateTime_new(NaiveDate_from_ymd(2023, 12, 31),
                                      NaiveTime_from_hms(23, 30, 0)))

\* The month k months after (before, for k < 0) the month of today, as a
\* date with the day `day`.
MonthsFromNow(k, day) ==
    LET index == today.year * 12 + (today.month - 1) + k
    IN  [year |-> index \div 12, month |-> (index % 12) + 1, day |-> day]

\* C15: get_ambiguous_month, given a day of the month, picks that day in
\* last month (Backward) or this month (Forward) when the day is greater
\* than the day of today; otherwise this month (Backward), and with Forward
\* this month when the day is the day of today and next month when it is
\* smaller.  Last month of January is December of the year before, next
\* month of December is January of the year after.
C15_DayOfMonth ==
    parsed.call = "get_ambiguous_month" =>
        parsed.result
          = MonthsFromNow(
                IF parsed.given.day > today.day
                  THEN IF parsed.search_type = Backward THEN 0 - 1 ELSE 0
                  ELSE IF parsed.search_type = Backward THEN 0
                       ELSE IF parsed.given.day = today.day THEN 0 ELSE 1,
                parsed.given.day)

\* The year the month/year resolution picks for a month.
YearOfMonth(month, search_type) ==
    IF month > today.month
      THEN IF search_type = Backward THEN today.year - 1 ELSE today.year + 1
      ELSE today.year

\* C16: get_ambiguous_year, given a month, picks last year (Backward) or
\* next year (Forward) when the month is greater than the month of today,
\* and the year of today otherwise, whatever the direction; the date it
\* returns lies in the given month of that year.
C16_MonthYear ==
    parsed.call = "get_ambiguous_year" =>
        /\ parsed.result # NoDate
        /\ parsed.result.year = YearOfMonth(parsed.given.month, parsed.search_type)
        /\ parsed.result.month = parsed.given.month

\* The fields of a `D H:M` or `D-M H:M` specifier.
DatePart(unit) == before(unit, find(unit, {" ", "\t"}))
GivenTime(unit) == NaiveTime_parse_from_str(after(unit, find(unit, {" ", "\t"})))
GivenDay(unit) ==
    IF find(DatePart(unit), {"-"}) = 0
      THEN from_str_radix(DatePart(unit))
      ELSE from_str_radix(before(DatePart(unit), find(DatePart(unit), {"-"})))
GivenMonth(unit) == from_str_radix(after(DatePart(unit), find(DatePart(unit), {"-"})))

ParsedDay == parsed.call = "parse_time_input" /\ AT_DAY_HOUR_MINUTES(parsed.unit)
ParsedDayMonth == parsed.call = "parse_time_input" /\ AT_DAY_MONTH_HOUR_MINUTES(parsed.unit)

\* The date of a specifier whose day or month is resolved to `date`: the
\* time of day decides when it is today, and it is kept otherwise.
Composed(date, unit, search_type) ==
    IF date = today THEN get_ambiguous_date(GivenTime(unit), search_type) ELSE date

\* C17: a `D H:M` specifier resolves to the date the day-of-month
\* resolution picks for D, a `D-M H:M` specifier to the date the month/year
\* resolution picks for D-M; only when that date is today is it replaced
\* by the date the time-of-day resolution picks for H:M; the moment is that
\* date at H:M.
C17_Composition ==
    /\ ParsedDay =>
          /\ parsed.result.tag = "Ok"
          /\ parsed.result.moment.time = GivenTime(parsed.unit)
          /\ parsed.result.moment.date
               = Composed(get_ambiguous_month(
                              [year |-> today.year, month |-> today.month,
                               day |-> GivenDay(parsed.unit)],
                              parsed.search_type),
                          parsed.unit, parsed.search_type)
    /\ ParsedDayMonth =>
          /\ parsed.result.tag = "Ok"
          /\ parsed.result.moment.time = GivenTime(parsed.unit)
          /\ parsed.result.moment.date
               = Composed(get_ambiguous_year(
                              [year |-> today.year, month |-> GivenMonth(parsed.unit),
                               day |-> GivenDay(parsed.unit)],
                              parsed.search_type),
                          parsed.unit, parsed.search_type)

\* C18: a `D-M H:M` specifier whose date, in the year the month/year
\* resolution picks, is not today resolves to a moment on day D of month M
\* at H:M; and the date the month/year resolution makes of a date lies on
\* the day and in the month of that date.
C18_DayMonthKept ==
    /\ (/\ ParsedDayMonth
        /\ [year |-> YearOfMonth(GivenMonth(parsed.unit), parsed.search_type),
            month |-> GivenMonth(parsed.unit),
            day |-> GivenDay(parsed.unit)] # today) =>
          /\ parsed.result.tag = "Ok"
          /\ parsed.result.moment.date.day = GivenDay(parsed.unit)
          /\ parsed.result.moment.date.month = GivenMonth(parsed.unit)
          /\ parsed.result.moment.time = GivenTime(parsed.unit)
    /\ parsed.call = "get_ambiguous_year" =>
          /\ parsed.result.day = parsed.given.day
          /\ parsed.result.month = parsed.given.month

\* The seven forms of an ambiguous specifier.
Ambiguous(unit) ==
    \/ AT_HOUR(unit) \/ AT_HOUR_MINUTES(unit)
    \/ AT_DAY_HOUR_MINUTES(unit) \/ AT_DAY_MONTH_HOUR_MINUTES(unit)
    \/ HOURS_AGO_OR_UNTIL(unit) \/ MINUTES_AGO_OR_UNTIL(unit)
    \/ HOURS_AND_MINUTES_AGO_OR_UNTIL(unit)

ParsedAmbiguous(search_type) ==
    /\ parsed.call = "parse_time_input"
    /\ parsed.search_type = search_type
    /\ Ambiguous(parsed.unit)

\* C19: searched backward, every ambiguous specifier (H, H:M, D H:M,
\* D-M H:M, Nh, Nm, H:Mh) resolves, whatever the clock, to a moment that is
\* not after now.
C19_BackwardNotAfterNow ==
    ParsedAmbiguous(Backward) =>
        /\ parsed.result.tag = "Ok"
        /\ NaiveDateTime_timestamp(parsed.result.moment) <= now

\* C20: searched forward, every ambiguous specifier (H, H:M, D H:M,
\* D-M H:M, Nh, Nm, H:Mh) resolves, whatever the clock, to a moment that is
\* not before now; the dates the day-of-month and the month/year resolution
\* pick are not before today.
C20_ForwardNotBeforeNow ==
    /\ ParsedAmbiguous(Forward) =>
          /\ parsed.result.tag = "Ok"
          /\ NaiveDateTime_timestamp(parsed.result.moment) >= now
    /\ (/\ parsed.call \in {"get_ambiguous_month", "get_ambiguous_year"}
        /\ parsed.search_type = Forward) =>
          /\ parsed.result # NoDate
          /\ ~date_gt(today, parsed.result)

----------------------------------------------------------------------------
(* Intervals of time specifiers *)

\* A specifier of one of the eight forms.
Recognized(unit) == Ambiguous(unit) \/ unit \in {TODAY, YESTERDAY}

ParsedInterval == parsed.call = "try_parse"

\* The timestamp of the moment of a specifier, in the direction of the call.
MomentOf(unit) ==
    NaiveDateTime_timestamp(parse_time_input(unit, parsed.search_type).moment)

\* C21: for a range `A - B` of two specifiers of the eight forms, try_parse
\* resolves both in the direction of the call and returns the interval from
\* the smaller to the greater of the two moments: the range `B - A` gives
\* the same interval, and a range out of order is not rejected.
C21_RangeNormalized ==
    \A a \in RangeUnits, b \in RangeUnits :
        (/\ ParsedInterval
         /\ parsed.unit = a \o SEPARATOR \o b
         /\ Recognized(a) /\ Recognized(b)) =>
            /\ parsed.result.tag = "Ok"
            /\ interval = [start |-> Min(MomentOf(a), MomentOf(b)),
                           end |-> Max(MomentOf(a), MomentOf(b))]
            /\ parsed.result = try_parse(b \o SEPARATOR \o a, parsed.search_type)

\* C22: whenever try_parse returns an error, the error is the User error
\* of the whole input read as one moment.
C22_OriginalError ==
    (ParsedInterval /\ parsed.result.tag = "Err") =>
        parsed.result.message = Invalid(parsed.unit).message

\* C23: an input that is read as one moment m gives the interval from m
\* to now when m <= now, and from now to m when m > now.
C23_MomentToNow ==
    (ParsedInterval /\ parse_time_input(parsed.unit, parsed.search_type).tag = "Ok") =>
        /\ parsed.result.tag = "Ok"
        /\ interval = IF MomentOf(parsed.unit) <= now
                        THEN [start |-> MomentOf(parsed.unit), end |-> now]
                        ELSE [start |-> now, end |-> MomentOf(parsed.unit)]

\* C23 witness: `1h` searched forward is the moment an hour after now, and
\* the interval starts now.
C23_Witness ==
    /\ ParsedInterval
    /\ parsed.unit = <<"1", "h">>
    /\ parsed.search_type = Forward
    /\ parsed.result.tag = "Ok"
    /\ interval = [start |-> now, end |-> now + SECONDS_IN_HOUR]

----------------------------------------------------------------------------
(* The grammar of time specifiers *)

\* A number in lo .. hi written in one or two ASCII digits, a single zero
\* before a single digit allowed.
Number(t, lo, hi) ==
    /\ Len(t) \in {1, 2}
    /\ all_digits(t)
    /\ from_str_radix(t) \in lo .. hi

\* The shapes of the seven forms with fields, the blank of `D H:M` and
\* `D-M H:M` being a space or a tab.
ShapeH(unit) == Number(unit, 0, 23)

ShapeHM(unit) ==
    \E i \in DOMAIN unit :
        unit[i] = ":" /\ Number(before(unit, i), 0, 23) /\ Number(after(unit, i), 0, 59)

ShapeDHM(unit) ==
    \E i \in DOMAIN unit :
        unit[i] \in {" ", "\t"} /\ Number(before(unit, i), 1, 31) /\ ShapeHM(after(unit, i))

ShapeDMHM(unit) ==
    \E i \in DOMAIN unit : \E j \in DOMAIN unit :
        /\ i < j /\ unit[i] = "-" /\ unit[j] \in {" ", "\t"}
        /\ Number(before(unit, i), 1, 31)
        /\ Number(SubSeq(unit, i + 1, j - 1), 1, 12)
        /\ ShapeHM(after(unit, j))

ShapeNh(unit) ==
    unit # <<>> /\ unit[Len(unit)] = "h" /\ Number(before(unit, Len(unit)), 1, 23)

ShapeNm(unit) ==
    unit # <<>> /\ unit[Len(unit)] = "m" /\ Number(before(unit, Len(unit)), 1, 59)

ShapeHMh(unit) ==
    unit # <<>> /\ unit[Len(unit)] = "h" /\ ShapeHM(before(unit, Len(unit)))

Shaped(unit) ==
    \/ ShapeH(unit) \/ ShapeHM(unit) \/ ShapeDHM(unit) \/ ShapeDMHM(unit)
    \/ ShapeNh(unit) \/ ShapeNm(unit) \/ ShapeHMh(unit)
    \/ unit \in {TODAY, YESTERDAY}

ParsedUnit == parsed.call = "parse_time_input"

\* C24: a text that has the shape of none of the eight forms makes
\* parse_time_input return the User error that carries the text, and no
\* moment.
C24_UnrecognizedRejected ==
    (ParsedUnit /\ ~Shaped(parsed.unit)) =>
        /\ parsed.result.tag = "Err"
        /\ parsed.result.message = <<"Invalid time specifier: ">> \o parsed.unit
        /\ parsed.result.moment = NoMoment

\* The forms that match a text, in the order parse_time_input tries them.
MatchingForms(unit) ==
    {form \in 1 .. 8 :
        CASE form = 1 -> AT_HOUR(unit)
          [] form = 2 -> AT_HOUR_MINUTES(unit)
          [] form = 3 -> AT_DAY_HOUR_MINUTES(unit)
          [] form = 4 -> AT_DAY_MONTH_HOUR_MINUTES(unit)
          [] form = 5 -> HOURS_AGO_OR_UNTIL(unit)
          [] form = 6 -> MINUTES_AGO_OR_UNTIL(unit)
          [] form = 7 -> HOURS_AND_MINUTES_AGO_OR_UNTIL(unit)
          [] form = 8 -> unit \in {TODAY, YESTERDAY}}

\* C25: no text is matched by more than one of the eight forms, so that
\* the order in which the forms are tried decides nothing.
C25_FormsExclusive ==
    ParsedUnit => Cardinality(MatchingForms(parsed.unit)) <= 1

\* C25 witness: `0:00h` is matched by the form H:Mh, and by no other form
\* although it starts with a text of the form H:M.
C25_Witness ==
    /\ ParsedUnit
    /\ parsed.unit = <<"0", ":", "0", "0", "h">>
    /\ MatchingForms(parsed.unit) = {7}
    /\ MatchingForms(before(parsed.unit, 5)) = {2}

\* C26: each form accepts the texts of its shape with every field in its
\* range, and no other text: a field out of its range, and a character
\* before or after the shape, make the form reject the text.
C26_FormsExact ==
    ParsedUnit =>
        /\ AT_HOUR(parsed.unit) <=> ShapeH(parsed.unit)
        /\ AT_HOUR_MINUTES(parsed.unit) <=> ShapeHM(parsed.unit)
        /\ AT_DAY_HOUR_MINUTES(parsed.unit) <=> ShapeDHM(parsed.unit)
        /\ AT_DAY_MONTH_HOUR_MINUTES(parsed.unit) <=> ShapeDMHM(parsed.unit)
        /\ HOURS_AGO_OR_UNTIL(parsed.unit) <=> ShapeNh(parsed.unit)
        /\ MINUTES_AGO_OR_UNTIL(parsed.unit) <=> ShapeNm(parsed.unit)
        /\ HOURS_AND_MINUTES_AGO_OR_UNTIL(parsed.unit) <=> ShapeHMh(parsed.unit)

----------------------------------------------------------------------------
(* Relative specifiers and literals *)

\* The seconds a relative specifier gives: N hours, N minutes, or H hours
\* and M minutes.
GivenOffset(unit) ==
    LET number == before(unit, Len(unit))
    IN  IF HOURS_AGO_OR_UNTIL(unit) THEN from_str_radix(number) * SECONDS_IN_HOUR
        ELSE IF MINUTES_AGO_OR_UNTIL(unit) THEN from_str_radix(number) * SECONDS_IN_MINUTE
        ELSE GivenSeconds(number)

ParsedRelative ==
    /\ ParsedUnit
    /\ \/ HOURS_AGO_OR_UNTIL(parsed.unit)
       \/ MINUTES_AGO_OR_UNTIL(parsed.unit)
       \/ HOURS_AND_MINUTES_AGO_OR_UNTIL(parsed.unit)

\* C27: `Nh` resolves to now - N hours searched backward and now + N hours
\* searched forward, `Nm` to now -/+ N minutes, and `H:Mh` to
\* now -/+ (60 * H + M) minutes.
C27_RelativeOffset ==
    ParsedRelative =>
        /\ parsed.result.tag = "Ok"
        /\ NaiveDateTime_timestamp(parsed.result.moment)
             = IF parsed.search_type = Backward
                 THEN now - GivenOffset(parsed.unit)
                 ELSE now + GivenOffset(parsed.unit)

\* C28: `today` resolves to 00:00:00 of the day of the clock and
\* `yesterday` to 00:00:00 of the day before, in both directions.
C28_Literals ==
    /\ (ParsedUnit /\ parsed.unit = TODAY) =>
          /\ parsed.result.tag = "Ok"
          /\ NaiveDateTime_timestamp(parsed.result.moment) = Midnight
    /\ (ParsedUnit /\ parsed.unit = YESTERDAY) =>
          /\ parsed.result.tag = "Ok"
          /\ NaiveDateTime_timestamp(parsed.result.moment) = Midnight - SECONDS_IN_DAY

\* C28 witness: at 23:59:59 on the first of January, `yesterday` searched
\* forward is 00:00:00 on the 31st of December of the year before.
C28_Witness ==
    /\ ParsedUnit
    /\ parsed.unit = YESTERDAY
    /\ parsed.search_type = Forward
    /\ now_date_time = NaiveDateTime_new(NaiveDate_from_ymd(2024, 1, 1),
                                         NaiveTime_from_hms(23, 59, 59))
    /\ parsed.result
         = Resolved(NaiveDateTime_new(NaiveDate_from_ymd(2023, 12, 31),
                                      NaiveTime_from_hms(0, 0, 0)))

----------------------------------------------------------------------------
(* Keys of the tally *)

\* The optional project and description of a record, as they are in the log.
RawKey(record) == <<record.event.project, record.event.description>>

\* The optional (project, description) pairs something is credited to.
RawCreditedKeys(events) ==
    (IF HasLead(events) THEN {RawKey(events[1])} ELSE {})
        \cup (IF HasTrail(events) THEN {RawKey(events[Len(events)])} ELSE {})
        \cup {RawKey(Middle(events)[2 * i - 1]) : i \in 1 .. (Len(Middle(events)) \div 2)}

\* C29: the tally has one entry for every optional (project, description)
\* pair something is credited to: records that both lack a project are
\* credited to one entry, and a record that lacks a project is credited to
\* another entry than a record whose project text is "Unnamed project".
C29_RawKeys ==
    (AfterOf /\ tally.tag = "Some") =>
        Cardinality(StoredKeys(tally.map)) = Cardinality(RawCreditedKeys(Filtered))

----------------------------------------------------------------------------
(* free and working *)

\* The latest record of the log is a Start.
LatestIsStart(lines) == lines # <<>> /\ lines[Len(lines)].text[1] = "Start"

----------------------------------------------------------------------------
(* since and until *)

\* A time argument that parse_time_input reads as one moment in the
\* direction search_type, and the timestamp of that moment.
OneMoment(time, search_type) == parse_time_input(time, search_type).tag = "Ok"
Stamp(time, search_type) ==
    NaiveDateTime_timestamp(parse_time_input(time, search_type).moment)

\* The line at position i of the log after the step is a record of the kind
\* `kind` for the project "a" without description, stamped `timestamp`.
Recorded(i, kind, timestamp) ==
    /\ log'[i].ts = timestamp
    /\ split(log'[i].text) = <<<<kind>>, <<"a">>, <<>>>>

C32_Until ==
    [][\A time \in TimedInputs :
          (subcommand' = "until" /\ until_input(time, Some(<<"a">>), None)) =>
              IF LatestIsStart(log)
                THEN exit' = EXIT_USER /\ log' = log
                ELSE OneMoment(time, Forward) =>
                       /\ exit' = EXIT_OK
                       /\ IsPrefix(log, log')
                       /\ Len(log') = Len(log) + 2
                       /\ Recorded(Len(log) + 1, "Start", now)
                       /\ Recorded(Len(log) + 2, "Stop", Stamp(time, Forward))
                       /\ log'[Len(log) + 1].ts <= log'[Len(log) + 2].ts]_vars

----------------------------------------------------------------------------
(* The logs the commands build *)

\* The kind written at position i of the log.
WrittenKind(i) == log[i].text[1]

\* C33: starting from an empty log, after any sequence of start, stop,
\* since (with or without --continue), until and between commands, accepted
\* or rejected, with any project, the records of the log alternate Start,
\* Stop, Start, ... in append order beginning with a Start: no two
\* consecutive records have the same kind.
C33_Alternation ==
    \A i \in DOMAIN log :
        WrittenKind(i) = (IF i % 2 = 1 THEN "Start" ELSE "Stop")

\* C34: starting from an empty log and under a clock that never goes back,
\* after any sequence of start, stop, since, until and between commands the
\* timestamps of the records are non-decreasing in append order.
C34_Ordered ==
    \A i \in DOMAIN log : \A j \in DOMAIN log : i < j => log[i].ts <= log[j].ts

----------------------------------------------------------------------------
(* Bounds of the tally *)

RECURSIVE SumOf(_, _)
\* The sum of the seconds stored for the pairs `keys`.
SumOf(projects, keys) ==
    IF keys = {} THEN 0
    ELSE LET k == CHOOSE x \in keys : TRUE
         IN  Value(projects, k) + SumOf(projects, keys \ {k})

Total(projects) == SumOf(projects, StoredKeys(projects))

\* C35: for every log that alternates Start/Stop beginning with a Start
\* with non-decreasing timestamps, and every interval [s, e], the tally is
\* computed, every duration in it is >= 0 and the sum of its durations is
\* <= e - s.
C35_TallyBounded ==
    (AfterOf /\ Alternating /\ NonDecreasing) =>
        /\ tally.tag \in {"Some", "None"}
        /\ \A k \in StoredKeys(tally.map) : Value(tally.map, k) >= 0
        /\ Total(tally.map) <= interval.end - interval.start

\* C35 witness: two sessions under two pairs fill the whole interval.
C35_Witness ==
    /\ AfterOf /\ Alternating /\ NonDecreasing
    /\ Len(log) = 4
    /\ tally.tag = "Some"
    /\ Cardinality(StoredKeys(tally.map)) = 2
    /\ interval.end > interval.start
    /\ Total(tally.map) = interval.end - interval.start

----------------------------------------------------------------------------
(* A description without a project *)

\* The line holds an empty project field and a description.
DescriptionOnly(line) ==
    LET fields == split(line.text)
    IN  Len(fields) = 3 /\ fields[2] = <<>> /\ fields[3] # <<>>

\* C36: an event recorded with a description but without a project, written
\* as `<ts>,Start,,<description>` or `<ts>,Stop,,<description>`, is read back
\* from the log as an event without project and is tallied under the project
\* label "Unnamed project".
C36_DescriptionOnly ==
    /\ \A i \in DOMAIN log :
          DescriptionOnly(log[i]) =>
              /\ Parsed(i).project = None
              /\ to_project(Parsed(i)) = <<"Unnamed project">>
    /\ (AfterOf /\ tally.tag = "Some" /\ \A i \in DOMAIN log : DescriptionOnly(log[i])) =>
          DOMAIN tally.map = {<<"Unnamed project">>}

----------------------------------------------------------------------------
(* Time arguments that are not read *)

\* try_parse gives no interval for the time argument.
Unparsable(time, search_type) == try_parse(time, search_type).tag # "Ok"

\* C37: when the time expression passed to since, until or between cannot
\* be parsed, the command returns a User error and appends no record: the
\* log is as it was before the command.
C37_UnparsableTime ==
    [][\A time \in TimedInputs :
          /\ (/\ subcommand' = "since"
              /\ Unparsable(time, Backward)
              /\ \E continue \in BOOLEAN :
                    since_input(time, Some(<<"a">>), None, continue))
               => (exit' = EXIT_USER /\ log' = log)
          /\ (/\ subcommand' = "until"
              /\ Unparsable(time, Forward)
              /\ until_input(time, Some(<<"a">>), None))
               => (exit' = EXIT_USER /\ log' = log)
          /\ (/\ subcommand' = "between"
              /\ Unparsable(time, Backward)
              /\ between_input(time, Some(<<"a">>), None))
               => (exit' = EXIT_USER /\ log' = log)]_vars

----------------------------------------------------------------------------
(* Days that a month lacks *)

\* The day of the date exists in its month.
OnCalendar(date) ==
    /\ date.month \in 1 .. 12
    /\ date.day \in 1 .. days_in_month(date.year, date.month)

\* C38: for every recognized `D H:M` specifier, every current date and both
\* search directions, the resolution yields a moment whose day exists in
\* its month or returns a User error; it never aborts, also when D exceeds
\* the length of the current, the previous or the next month.
C38_DayNeverAborts ==
    ParsedDay =>
        /\ parsed.result.tag \in {"Ok", "Err"}
        /\ parsed.result.tag = "Ok" => OnCalendar(parsed.result.moment.date)

----------------------------------------------------------------------------
(* of yesterday and of today *)

\* The last command was `of` on the input `interval_input`, and the
\* midnight of the day it ran on.
OfOn(interval_input) == subcommand = "of" /\ parsed.call = "of" /\ parsed.unit = interval_input
OfMidnight == args.clock - (args.clock % SECONDS_IN_DAY)

\* The records of the log that are not stamped after the moment `end`.
UpTo(end) == SelectSeq(log, LAMBDA line : line.ts <= end)

\* C39: `of` given exactly `yesterday` tallies over [midnight of yesterday,
\* midnight of today], so that records stamped after today's midnight are
\* excluded; given `today` it tallies over [midnight of today, now].
C39_OfYesterday ==
    /\ OfOn(YESTERDAY) =>
          /\ interval = [start |-> OfMidnight - SECONDS_IN_DAY, end |-> OfMidnight]
          /\ tally = tally_time(UpTo(OfMidnight), interval)
    /\ OfOn(TODAY) =>
          /\ interval = [start |-> OfMidnight, end |-> args.clock]
          /\ tally = tally_time(log, interval)

\* C39 witness: `of yesterday` on a log with a Start before today's
\* midnight and a Stop after it: the time up to midnight is tallied.
C39_Witness ==
    /\ OfOn(YESTERDAY)
    /\ Len(log) = 2
    /\ log[1].ts < OfMidnight
    /\ log[2].ts > OfMidnight
    /\ tally.tag = "Some"
    /\ Total(tally.map) = OfMidnight - log[1].ts

====
